---- MODULE Spec2Model ----
(***************************************************************************)
(* Model of cvbn_vswitch.vswitch: the client-side lifecycle manager for    *)
(* switches, run instances, networks, subnets, domains, GRE/VLAN ports and *)
(* domain-port bindings kept in a remote resource store that is reached    *)
(* only through walk / set / delete.                                       *)
(*                                                                         *)
(* The store is the only state.  Every public method is a pure operator    *)
(* from a store to a result record [st, ret, rid]: st is the store after   *)
(* the call, ret the returned value ("True", "False", "None", "Id" or the  *)
(* name of the exception that left the method) and rid the returned id.    *)
(* In Spec the calls come one at a time and the store never fails;         *)
(* startSwitch is split at its polling loop, where the world changes under *)
(* a running method.  In SpecFault the store can refuse a set and a        *)
(* second client calls it between the loop iterations of deleteNetwork.    *)
(*                                                                         *)
(* Store semantics (spec sections 1 and 3): no referential checks, every   *)
(* resource lives until its delete, generated ids are never reused, a      *)
(* walk returns resources in creation order.                               *)
(***************************************************************************)
EXTENDS Integers, Sequences, FiniteSets, TLC

\* ---- bounds of the model ----
\* ids the store hands out in one behaviour
MaxIds == 6
\* startSwitch is called with maxWait in 0..MaxWaitBound
MaxWaitBound == 2
\* domain-port bindings held by the store at once
MaxBindings == 2
\* switch definitions held by the store at once
MaxSwitches == 1
\* run instances two callers that share the store create in one behaviour
MaxInstances == 2

SwitchNames == {"demo"}
NetworkNames == {"vm"}
DomainNames == {"user1"}
PortNames == {"gre10"}
HostInterfaces == {"eth1"}
Cidrs == {"192.168.30.0/24"}
Vlans == {"666"}

GreTid == "networking.port.gre"
RawTid == "networking.port.raw"
SubnetTid == "networking.subnet"
VswitchTid == "compute.vswitch"
ServerTid == "compute.server"
NetvTid == "networking.vswitch"
NetworkTid == "networking.network"
DomainTid == "networking.vswitch.domain"
DomainPortsTid == "networking.vswitch.domain.ports"

\* Python's None, for methods that return an object or an id: the result is
\* <<>> (None) or <<value>>.
None == <<>>

VARIABLES store, pc, poll, last, job, devices, request, clients
vars == <<store, pc, poll, last, job, devices, request, clients>>

\* ---- helpers over walk results ----
HasId(seq, id) == \E i \in 1..Len(seq) : seq[i].id = id

FirstWithId(seq, id) ==
  IF HasId(seq, id)
  THEN <<seq[CHOOSE i \in 1..Len(seq) :
               seq[i].id = id /\ \A j \in 1..(i-1) : seq[j].id # id]>>
  ELSE None

RemoveId(seq, id) == SelectSeq(seq, LAMBDA r : r.id # id)

OfSwitch(seq, uuid) == SelectSeq(seq, LAMBDA r : r.sw = uuid)

Ret(st, ret) == [st |-> st, ret |-> ret, rid |-> 0]
RetId(st, id) == [st |-> st, ret |-> "Id", rid |-> id]

\* Every set and delete call of the class sits in a try block whose except
\* clauses raise CvbnApiFailure.  st.failing holds the <<method, tid>> pairs
\* the store answers with an error.
Fails(st, method, tid) == <<method, tid>> \in st.failing
Raise(st) == Ret(st, "CvbnApiFailure")

\* a call made after a first one whose value is dropped: it is not made when
\* the first raised
AndThen(r, Call2(_)) == IF r.ret = "CvbnApiFailure" THEN r ELSE Call2(r.st)

\* "if not self.method(...): return False", and what follows it
IfTrue(r, Call2(_)) ==
  IF r.ret = "CvbnApiFailure" THEN r
  ELSE IF r.ret # "True" THEN Ret(r.st, "False")
  ELSE Call2(r.st)

\* ---- the store after construction ----
EmptyStore ==
  [ nextId      |-> 1,
    switches    |-> <<>>,   \* compute.vswitch: [id, name]
    servers     |-> <<>>,   \* compute.server: [id, configuration]
    connections |-> {},     \* connection resources, by name (a switch id)
    netvs       |-> {},     \* switches whose target holds a networking.vswitch
    networks    |-> <<>>,   \* networking.network: [id, sw, name, host_interface, subnets]
    subnets     |-> <<>>,   \* networking.subnet: [id, sw, network_id, cidr]
    domains     |-> <<>>,   \* networking.vswitch.domain: [id, sw, name]
    domainPorts |-> <<>>,   \* networking.vswitch.domain.ports: [sw, domain, port, tid]
    failing     |-> {},     \* <<method, tid>> the store answers with an error
    portsGre    |-> <<>>,   \* networking.port.gre: [id, sw, name, local_subnet]
    portsVlan   |-> <<>> ]  \* networking.port.raw: [id, sw, name, network_id, vlan]

\* ---- switch definitions ----
getSwitches(st) == st.switches

isSwitch(st, uuid) == \E i \in 1..Len(st.switches) : st.switches[i].id = uuid

addSwitch(st, name) ==
  IF Fails(st, "set", VswitchTid) THEN Raise(st) ELSE
  RetId([st EXCEPT !.switches = Append(@, [id |-> st.nextId, name |-> name]),
                   !.nextId = @ + 1],
        st.nextId)

\* ---- run instances ----
\* variant of getRunId: the isSwitch test is left out
getRunId_NoDefinedCheck(st, uuid) ==
  IF \E i \in 1..Len(st.servers) : st.servers[i].configuration = uuid
  THEN <<st.servers[CHOOSE i \in 1..Len(st.servers) :
            /\ st.servers[i].configuration = uuid
            /\ \A j \in 1..(i-1) : st.servers[j].configuration # uuid].id>>
  ELSE None

getRunId(st, uuid) ==
  IF ~isSwitch(st, uuid) THEN None
  ELSE IF \E i \in 1..Len(st.servers) : st.servers[i].configuration = uuid
       THEN <<st.servers[CHOOSE i \in 1..Len(st.servers) :
                 /\ st.servers[i].configuration = uuid
                 /\ \A j \in 1..(i-1) : st.servers[j].configuration # uuid].id>>
       ELSE None

\* variant of isRunning: asks whether the switch is defined, not whether an
\* instance of it exists
isRunning_Defined(st, uuid) == isSwitch(st, uuid)

isRunning(st, uuid) == IF getRunId(st, uuid) = None THEN FALSE ELSE TRUE

isConnectedToMux(st, uuid) == \E n \in st.connections : n = uuid

\* variant of stopSwitch: reports True also when there is no run instance
stopSwitch_AlwaysTrue(st, uuid) ==
  LET runId == getRunId(st, uuid) IN
  IF runId = None THEN Ret(st, "True")
  ELSE Ret([st EXCEPT !.servers = RemoveId(@, runId[1])], "True")

stopSwitch(st, uuid) ==
  LET runId == getRunId(st, uuid) IN
  IF runId = None THEN Ret(st, "False")
  ELSE IF Fails(st, "delete", ServerTid) THEN Raise(st)
  ELSE Ret([st EXCEPT !.servers = RemoveId(@, runId[1])], "True")

getNetworkingId(st, uuid) ==
  IF getRunId(st, uuid) = None THEN [ret |-> "None", obj |-> None]
  ELSE IF uuid \in st.netvs THEN [ret |-> "Obj", obj |-> <<uuid>>]
  ELSE [ret |-> "IndexError", obj |-> None]

\* ---- associate networks and subnets ----
getNetworks(st, uuid) ==
  IF getRunId(st, uuid) = None THEN [none |-> TRUE, children |-> <<>>]
  ELSE [none |-> FALSE, children |-> OfSwitch(st.networks, uuid)]

getNetworkId(st, uuid, networkId) ==
  IF getRunId(st, uuid) = None THEN None
  ELSE FirstWithId(OfSwitch(st.networks, uuid), networkId)

getSubnets(st, uuid) ==
  IF getRunId(st, uuid) = None THEN [none |-> TRUE, children |-> <<>>]
  ELSE [none |-> FALSE, children |-> OfSwitch(st.subnets, uuid)]

getSubnetId(st, uuid, subnetId) ==
  IF getRunId(st, uuid) = None THEN None
  ELSE FirstWithId(OfSwitch(st.subnets, uuid), subnetId)

\* The store lists a subnet in its network's subnets attribute for as long as
\* the subnet exists (docstrings of getNetworks and addNetwork).  A set the
\* store answers with an error is re-raised as CvbnApiFailure.
addSubnet(st, uuid, networkId, ipv4Subnet) ==
  IF getRunId(st, uuid) = None THEN Ret(st, "None")
  ELSE IF getNetworkId(st, uuid, networkId) = None THEN Ret(st, "None")
  ELSE IF Fails(st, "set", SubnetTid) THEN Raise(st)
  ELSE RetId(
    [st EXCEPT
       !.subnets = Append(@, [id |-> st.nextId, sw |-> uuid,
                              network_id |-> networkId, cidr |-> ipv4Subnet]),
       !.networks = [i \in 1..Len(st.networks) |->
                       IF st.networks[i].id = networkId /\ st.networks[i].sw = uuid
                       THEN [st.networks[i] EXCEPT !.subnets = Append(@, st.nextId)]
                       ELSE st.networks[i]],
       !.nextId = @ + 1],
    st.nextId)

\* deleteSubnet without the getSubnetId test
deleteSubnet_NoLookup(st, uuid, subnetId) ==
  IF getRunId(st, uuid) = None THEN Ret(st, "False")
  ELSE Ret(
    [st EXCEPT
       !.subnets = RemoveId(@, subnetId),
       !.networks = [i \in 1..Len(st.networks) |->
                       [st.networks[i] EXCEPT
                          !.subnets = SelectSeq(@, LAMBDA x : x # subnetId)]]],
    "True")

\* variant of deleteSubnet: a subnet that a GRE port names as its local_subnet
\* is refused
deleteSubnet_RefusesReferenced(st, uuid, subnetId) ==
  IF getRunId(st, uuid) = None THEN Ret(st, "False")
  ELSE IF getSubnetId(st, uuid, subnetId) = None THEN Ret(st, "False")
  ELSE IF \E i \in 1..Len(st.portsGre) : st.portsGre[i].local_subnet = subnetId
  THEN Ret(st, "False")
  ELSE Ret(
    [st EXCEPT
       !.subnets = RemoveId(@, subnetId),
       !.networks = [i \in 1..Len(st.networks) |->
                       [st.networks[i] EXCEPT
                          !.subnets = SelectSeq(@, LAMBDA x : x # subnetId)]]],
    "True")

deleteSubnet(st, uuid, subnetId) ==
  IF getRunId(st, uuid) = None THEN Ret(st, "False")
  ELSE IF getSubnetId(st, uuid, subnetId) = None THEN Ret(st, "False")
  ELSE IF Fails(st, "delete", SubnetTid) THEN Raise(st)
  ELSE Ret(
    [st EXCEPT
       !.subnets = RemoveId(@, subnetId),
       !.networks = [i \in 1..Len(st.networks) |->
                       [st.networks[i] EXCEPT
                          !.subnets = SelectSeq(@, LAMBDA x : x # subnetId)]]],
    "True")

RECURSIVE deleteNetworkSubnets(_, _, _)
\* the loop of deleteNetwork over networkDetails['subnets']
deleteNetworkSubnets(st, uuid, ids) ==
  IF ids = <<>> THEN Ret(st, "True")
  ELSE IfTrue(deleteSubnet(st, uuid, Head(ids)),
              LAMBDA s : deleteNetworkSubnets(s, uuid, Tail(ids)))

\* deleteNetwork without the loop over the network's subnets
deleteNetwork_KeepSubnets(st, uuid, networkId) ==
  IF getRunId(st, uuid) = None THEN Ret(st, "False")
  ELSE IF getNetworkId(st, uuid, networkId) = None THEN Ret(st, "False")
  ELSE Ret([st EXCEPT !.networks = RemoveId(@, networkId)], "True")

deleteNetwork(st, uuid, networkId) ==
  IF getRunId(st, uuid) = None THEN Ret(st, "False")
  ELSE LET networkDetails == getNetworkId(st, uuid, networkId) IN
       IF networkDetails = None THEN Ret(st, "False")
       ELSE IfTrue(deleteNetworkSubnets(st, uuid, networkDetails[1].subnets),
                   LAMBDA s : IF Fails(s, "delete", NetworkTid) THEN Raise(s)
                              ELSE Ret([s EXCEPT !.networks = RemoveId(@, networkId)],
                                       "True"))

\* addNetwork that never calls addSubnet
addNetwork_IgnoresCidr(st, uuid, networkName, hostInterface, ipv4Subnet) ==
  IF getRunId(st, uuid) = None THEN Ret(st, "None")
  ELSE RetId([st EXCEPT
                !.networks = Append(@, [id |-> st.nextId, sw |-> uuid,
                                        name |-> networkName,
                                        host_interface |-> hostInterface,
                                        subnets |-> <<>>]),
                !.nextId = @ + 1],
             st.nextId)

\* addNetwork after its call of addSubnet, whose result is r: a network whose
\* subnet was refused is deleted again
addNetworkSubnet(r, uuid, networkId) ==
  IF r.ret = "CvbnApiFailure" THEN Raise(r.st)
  ELSE IF r.ret # "Id"
  THEN AndThen(deleteNetwork(r.st, uuid, networkId), LAMBDA s : Ret(s, "None"))
  ELSE RetId(r.st, networkId)

\* variant of addNetwork: ipv4Subnet is compared with the None object, which
\* no string equals, so addSubnet is called for "None" too
addNetwork_NoneObject(st, uuid, networkName, hostInterface, ipv4Subnet) ==
  IF getRunId(st, uuid) = None THEN Ret(st, "None")
  ELSE LET networkId == st.nextId
           st1 == [st EXCEPT
                     !.networks = Append(@, [id |-> networkId, sw |-> uuid,
                                             name |-> networkName,
                                             host_interface |-> hostInterface,
                                             subnets |-> <<>>]),
                     !.nextId = @ + 1]
       IN addNetworkSubnet(addSubnet(st1, uuid, networkId, ipv4Subnet),
                           uuid, networkId)

\* ipv4Subnet is a CIDR or the string "None"
addNetwork(st, uuid, networkName, hostInterface, ipv4Subnet) ==
  IF getRunId(st, uuid) = None THEN Ret(st, "None")
  ELSE IF Fails(st, "set", NetworkTid) THEN Raise(st)
  ELSE LET networkId == st.nextId
           st1 == [st EXCEPT
                     !.networks = Append(@, [id |-> networkId, sw |-> uuid,
                                             name |-> networkName,
                                             host_interface |-> hostInterface,
                                             subnets |-> <<>>]),
                     !.nextId = @ + 1]
       IN IF ipv4Subnet # "None"
          THEN addNetworkSubnet(addSubnet(st1, uuid, networkId, ipv4Subnet),
                                uuid, networkId)
          ELSE RetId(st1, networkId)

\* ---- domains ----
getDomains(st, uuid) ==
  IF getRunId(st, uuid) = None THEN [none |-> TRUE, children |-> <<>>]
  ELSE [none |-> FALSE, children |-> OfSwitch(st.domains, uuid)]

getDomainId(st, uuid, domainId) ==
  IF getRunId(st, uuid) = None THEN None
  ELSE FirstWithId(OfSwitch(st.domains, uuid), domainId)

addDomain(st, uuid, domainName) ==
  IF getRunId(st, uuid) = None THEN Ret(st, "None")
  ELSE LET nid == getNetworkingId(st, uuid) IN
       IF nid.ret = "IndexError" THEN Ret(st, "IndexError")
       ELSE IF Fails(st, "set", DomainTid) THEN Raise(st)
       ELSE RetId([st EXCEPT
                     !.domains = Append(@, [id |-> st.nextId, sw |-> uuid,
                                            name |-> domainName]),
                     !.nextId = @ + 1],
                  st.nextId)

\* ---- GRE and VLAN ports ----
getPortGreId(st, uuid, portId) ==
  IF getRunId(st, uuid) = None THEN None
  ELSE FirstWithId(OfSwitch(st.portsGre, uuid), portId)

getPortVlanId(st, uuid, portId) ==
  IF getRunId(st, uuid) = None THEN None
  ELSE FirstWithId(OfSwitch(st.portsVlan, uuid), portId)

addPortGre(st, uuid, subnetId, portName) ==
  IF getRunId(st, uuid) = None THEN Ret(st, "None")
  ELSE IF getSubnetId(st, uuid, subnetId) = None THEN Ret(st, "None")
  ELSE IF Fails(st, "set", GreTid) THEN Raise(st)
  ELSE RetId([st EXCEPT
                !.portsGre = Append(@, [id |-> st.nextId, sw |-> uuid,
                                        name |-> portName,
                                        local_subnet |-> subnetId]),
                !.nextId = @ + 1],
             st.nextId)

\* The store refuses a VLAN tag that is already in use on the host interface
\* (docstring of addPortVlan); the method re-raises that as CvbnApiFailure.
VlanInUse(st, hostInterface, vlan) ==
  \E i \in 1..Len(st.portsVlan) :
     st.portsVlan[i].host_interface = hostInterface /\ st.portsVlan[i].vlan = vlan

addPortVlan(st, uuid, networkId, portName, vlan) ==
  IF getRunId(st, uuid) = None THEN Ret(st, "None")
  ELSE LET net == getNetworkId(st, uuid, networkId) IN
       IF net = None THEN Ret(st, "None")
       ELSE IF Fails(st, "set", RawTid) \/ VlanInUse(st, net[1].host_interface, vlan)
       THEN Raise(st)
       ELSE RetId([st EXCEPT
                     !.portsVlan = Append(@, [id |-> st.nextId, sw |-> uuid,
                                              name |-> portName,
                                              network_id |-> networkId,
                                              host_interface |-> net[1].host_interface,
                                              vlan |-> vlan]),
                     !.nextId = @ + 1],
                  st.nextId)

\* ---- domain-port bindings ----
Binding(uuid, domainId, portId, tid) ==
  [sw |-> uuid, domain |-> domainId, port |-> portId, tid |-> tid]

\* The class defines isPortGreDomain twice; the second definition
\* (uuid, portId, domainId) replaces the first (uuid, domainId, portId), so
\* every call reaches this one whatever order its caller passes.
isPortGreDomain(st, uuid, portId, domainId) ==
  IF getRunId(st, uuid) = None THEN FALSE
  ELSE LET children == OfSwitch(st.domainPorts, uuid) IN
       \E i \in 1..Len(children) :
          /\ children[i].domain = domainId
          /\ children[i].tid = GreTid
          /\ children[i].port = portId

isPortVlanDomain(st, uuid, domainId, portId) ==
  IF getRunId(st, uuid) = None THEN FALSE
  ELSE IF getDomainId(st, uuid, domainId) = None THEN FALSE
  ELSE IF getPortVlanId(st, uuid, portId) = None THEN FALSE
  ELSE LET children == OfSwitch(st.domainPorts, uuid) IN
       \E i \in 1..Len(children) :
          /\ children[i].domain = domainId
          /\ children[i].tid = RawTid
          /\ children[i].port = portId

isPortGreAnyDomain(st, uuid, portId) ==
  IF getRunId(st, uuid) = None THEN FALSE
  ELSE LET doms == getDomains(st, uuid).children IN
       \E i \in 1..Len(doms) : isPortGreDomain(st, uuid, portId, doms[i].id)

addPortGreDomain(st, uuid, domainId, portId) ==
  IF getRunId(st, uuid) = None THEN Ret(st, "False")
  ELSE IF getDomainId(st, uuid, domainId) = None THEN Ret(st, "False")
  ELSE IF getPortGreId(st, uuid, portId) = None THEN Ret(st, "False")
  ELSE IF isPortGreDomain(st, uuid, domainId, portId) THEN Ret(st, "False")
  ELSE IF Fails(st, "set", DomainPortsTid) THEN Raise(st)
  ELSE Ret([st EXCEPT !.domainPorts =
                 Append(@, Binding(uuid, domainId, portId, GreTid))], "True")

deletePortGreDomain(st, uuid, domainId, portId) ==
  IF getRunId(st, uuid) = None THEN Ret(st, "False")
  ELSE IF getDomainId(st, uuid, domainId) = None THEN Ret(st, "False")
  ELSE IF ~isPortGreDomain(st, uuid, domainId, portId) THEN Ret(st, "False")
  ELSE IF Fails(st, "delete", DomainPortsTid) THEN Raise(st)
  ELSE Ret([st EXCEPT !.domainPorts =
                 SelectSeq(@, LAMBDA b : b # Binding(uuid, domainId, portId, GreTid))],
           "True")

addPortVlanDomain(st, uuid, domainId, portId) ==
  IF getRunId(st, uuid) = None THEN Ret(st, "False")
  ELSE IF getDomainId(st, uuid, domainId) = None THEN Ret(st, "False")
  ELSE IF getPortVlanId(st, uuid, portId) = None THEN Ret(st, "False")
  ELSE IF isPortVlanDomain(st, uuid, domainId, portId) THEN Ret(st, "False")
  ELSE IF Fails(st, "set", DomainPortsTid) THEN Raise(st)
  ELSE Ret([st EXCEPT !.domainPorts =
                 Append(@, Binding(uuid, domainId, portId, RawTid))], "True")

\* variant of deletePortVlanDomain: the VLAN port goes with its binding
deletePortVlanDomain_DeletesPort(st, uuid, domainId, portId) ==
  IF getRunId(st, uuid) = None THEN Ret(st, "False")
  ELSE IF getDomainId(st, uuid, domainId) = None THEN Ret(st, "False")
  ELSE IF ~isPortVlanDomain(st, uuid, domainId, portId) THEN Ret(st, "False")
  ELSE Ret([st EXCEPT !.domainPorts =
                 SelectSeq(@, LAMBDA b : b # Binding(uuid, domainId, portId, RawTid)),
                      !.portsVlan = RemoveId(@, portId)],
           "True")

deletePortVlanDomain(st, uuid, domainId, portId) ==
  IF getRunId(st, uuid) = None THEN Ret(st, "False")
  ELSE IF getDomainId(st, uuid, domainId) = None THEN Ret(st, "False")
  ELSE IF ~isPortVlanDomain(st, uuid, domainId, portId) THEN Ret(st, "False")
  ELSE IF Fails(st, "delete", DomainPortsTid) THEN Raise(st)
  ELSE Ret([st EXCEPT !.domainPorts =
                 SelectSeq(@, LAMBDA b : b # Binding(uuid, domainId, portId, RawTid))],
           "True")

deletePortGre(st, uuid, portId) ==
  IF getRunId(st, uuid) = None THEN Ret(st, "False")
  ELSE IF getPortGreId(st, uuid, portId) = None THEN Ret(st, "False")
  ELSE IF isPortGreAnyDomain(st, uuid, portId) THEN Ret(st, "False")
  ELSE IF Fails(st, "delete", GreTid) THEN Raise(st)
  ELSE Ret([st EXCEPT !.portsGre = RemoveId(@, portId)], "True")

\* variant of deletePortVlan: a port some domain holds is refused, as
\* deletePortGre refuses one
deletePortVlan_BoundGuard(st, uuid, portId) ==
  IF getRunId(st, uuid) = None THEN Ret(st, "False")
  ELSE IF getPortVlanId(st, uuid, portId) = None THEN Ret(st, "False")
  ELSE IF \E i \in 1..Len(st.domainPorts) :
             /\ st.domainPorts[i].tid = RawTid
             /\ st.domainPorts[i].port = portId
       THEN Ret(st, "False")
  ELSE Ret([st EXCEPT !.portsVlan = RemoveId(@, portId)], "True")

deletePortVlan(st, uuid, portId) ==
  IF getRunId(st, uuid) = None THEN Ret(st, "False")
  ELSE IF getPortVlanId(st, uuid, portId) = None THEN Ret(st, "False")
  ELSE IF Fails(st, "delete", RawTid) THEN Raise(st)
  ELSE Ret([st EXCEPT !.portsVlan = RemoveId(@, portId)], "True")

\* the body of the loop of deleteDomainPorts for one row of the walk: the
\* value of each delete call is dropped, as in the code
deleteDomainPortsRow(st, uuid, domainId, inst) ==
  IF inst.domain = domainId /\ inst.tid = GreTid
  THEN AndThen(deletePortGreDomain(st, uuid, domainId, inst.port),
               LAMBDA s : deletePortGre(s, uuid, inst.port))
  ELSE IF inst.domain = domainId /\ inst.tid = RawTid
  THEN AndThen(deletePortVlanDomain(st, uuid, domainId, inst.port),
               LAMBDA s : deletePortVlan(s, uuid, inst.port))
  ELSE Ret(st, "True")

RECURSIVE deleteDomainPortsLoop(_, _, _, _)
\* the loop of deleteDomainPorts over the bindings it walked; a
\* CvbnApiFailure raised in its body ends it
deleteDomainPortsLoop(st, uuid, domainId, children) ==
  IF children = <<>> THEN Ret(st, "True")
  ELSE AndThen(deleteDomainPortsRow(st, uuid, domainId, Head(children)),
               LAMBDA s : deleteDomainPortsLoop(s, uuid, domainId, Tail(children)))

deleteDomainPorts(st, uuid, domainId) ==
  IF getRunId(st, uuid) = None THEN Ret(st, "False")
  ELSE IF getDomainId(st, uuid, domainId) = None THEN Ret(st, "False")
  ELSE deleteDomainPortsLoop(st, uuid, domainId, OfSwitch(st.domainPorts, uuid))

\* variant of deleteDomain: a CvbnApiFailure out of deleteDomainPorts is
\* answered with False
deleteDomain_SwallowsFailure(st, uuid, domainId) ==
  IF getRunId(st, uuid) = None THEN Ret(st, "False")
  ELSE IF getDomainId(st, uuid, domainId) = None THEN Ret(st, "False")
  ELSE LET r == deleteDomainPorts(st, uuid, domainId) IN
       IF r.ret # "True" THEN Ret(r.st, "False")
       ELSE IF Fails(r.st, "delete", DomainTid) THEN Raise(r.st)
       ELSE Ret([r.st EXCEPT !.domains = RemoveId(@, domainId)], "True")

deleteDomain(st, uuid, domainId) ==
  IF getRunId(st, uuid) = None THEN Ret(st, "False")
  ELSE IF getDomainId(st, uuid, domainId) = None THEN Ret(st, "False")
  ELSE IfTrue(deleteDomainPorts(st, uuid, domainId),
              LAMBDA s : IF Fails(s, "delete", DomainTid) THEN Raise(s)
                         ELSE Ret([s EXCEPT !.domains = RemoveId(@, domainId)], "True"))

\* ---- lookups by name: the first resource a walk lists under the name ----
FirstWithName(seq, name) ==
  IF \E i \in 1..Len(seq) : seq[i].name = name
  THEN <<seq[CHOOSE i \in 1..Len(seq) :
                /\ seq[i].name = name
                /\ \A j \in 1..(i - 1) : seq[j].name # name]>>
  ELSE None

getNetworkName(st, uuid, networkName) ==
  IF getRunId(st, uuid) = None THEN None
  ELSE FirstWithName(OfSwitch(st.networks, uuid), networkName)

getDomainName(st, uuid, domainName) ==
  IF getRunId(st, uuid) = None THEN None
  ELSE FirstWithName(OfSwitch(st.domains, uuid), domainName)

getPortGreName(st, uuid, portName) ==
  IF getRunId(st, uuid) = None THEN None
  ELSE FirstWithName(OfSwitch(st.portsGre, uuid), portName)

getPortVlanName(st, uuid, portName) ==
  IF getRunId(st, uuid) = None THEN None
  ELSE FirstWithName(OfSwitch(st.portsVlan, uuid), portName)

\* ---- deleting a switch ----
RECURSIVE deleteSwitchDomains(_, _, _)
\* the loop of deleteSwitch over the domains it walked
deleteSwitchDomains(st, uuid, doms) ==
  IF doms = <<>> THEN Ret(st, "True")
  ELSE IfTrue(deleteDomain(st, uuid, Head(doms).id),
              LAMBDA s : deleteSwitchDomains(s, uuid, Tail(doms)))

\* variant of deleteSwitch: the isSwitch test is left out
deleteSwitch_NoDefinedCheck(st, uuid) ==
  LET r1 == IF isRunning(st, uuid) THEN stopSwitch(st, uuid) ELSE Ret(st, "True") IN
  IF r1.ret # "True" THEN Ret(r1.st, "False")
  ELSE LET doms == getDomains(r1.st, uuid) IN
       IF doms.none THEN Ret(r1.st, "TypeError")
       ELSE LET r2 == deleteSwitchDomains(r1.st, uuid, doms.children) IN
            IF r2.ret # "True" THEN r2
            ELSE Ret([r2.st EXCEPT !.switches = RemoveId(@, uuid)], "True")

\* deleteSwitch from its loop on.  getDomains answers None for a switch that
\* is not running, and iterating over None raises TypeError, which no except
\* clause of deleteSwitch catches.
deleteSwitchRest(st, uuid) ==
  LET doms == getDomains(st, uuid) IN
  IF doms.none THEN Ret(st, "TypeError")
  ELSE IfTrue(deleteSwitchDomains(st, uuid, doms.children),
              LAMBDA s : IF Fails(s, "delete", VswitchTid) THEN Raise(s)
                         ELSE Ret([s EXCEPT !.switches = RemoveId(@, uuid)], "True"))

\* variant of deleteSwitch: the definition is deleted at once, whether or not
\* an instance of it runs
deleteSwitch_KeepsInstance(st, uuid) ==
  IF ~isSwitch(st, uuid) THEN Ret(st, "False")
  ELSE Ret([st EXCEPT !.switches = RemoveId(@, uuid)], "True")

deleteSwitch(st, uuid) ==
  IF ~isSwitch(st, uuid) THEN Ret(st, "False")
  ELSE IfTrue(IF isRunning(st, uuid) THEN stopSwitch(st, uuid) ELSE Ret(st, "True"),
              LAMBDA s : deleteSwitchRest(s, uuid))

\* ---- startSwitch ----
\* variant of startSwitchBegin: the isSwitch test is left out
startSwitchBegin_NoDefinedCheck(st, uuid) ==
  IF isRunning(st, uuid) THEN [st |-> st, polling |-> FALSE, raised |-> FALSE]
  ELSE [st |-> [st EXCEPT
                  !.servers = Append(@, [id |-> st.nextId, configuration |-> uuid]),
                  !.nextId = @ + 1],
        polling |-> TRUE, raised |-> FALSE]

\* variant of startSwitchBegin: the isRunning test is left out
startSwitchBegin_NoRunningCheck(st, uuid) ==
  IF ~isSwitch(st, uuid) THEN [st |-> st, polling |-> FALSE, raised |-> FALSE]
  ELSE [st |-> [st EXCEPT
                  !.servers = Append(@, [id |-> st.nextId, configuration |-> uuid]),
                  !.nextId = @ + 1],
        polling |-> TRUE, raised |-> FALSE]

\* Lines 300-322: the two refusals, then the compute.server set and the loop
\* variables.  polling says whether the method goes on into its loop, raised
\* whether it ended with CvbnApiFailure.
startSwitchBegin(st, uuid) ==
  IF ~isSwitch(st, uuid) THEN [st |-> st, polling |-> FALSE, raised |-> FALSE]
  ELSE IF isRunning(st, uuid) THEN [st |-> st, polling |-> FALSE, raised |-> FALSE]
  ELSE IF Fails(st, "set", ServerTid)
       THEN [st |-> st, polling |-> FALSE, raised |-> TRUE]
  ELSE [st |-> [st EXCEPT
                  !.servers = Append(@, [id |-> st.nextId, configuration |-> uuid]),
                  !.nextId = @ + 1],
        polling |-> TRUE, raised |-> FALSE]

\* variant of startSwitchPoll: the loop ends at counter >= maxWait
startSwitchPoll_OffByOne(st, p) ==
  IF isConnectedToMux(st, p.uuid)
  THEN [st |-> [st EXCEPT !.netvs = @ \cup {p.uuid}],
        p |-> [p EXCEPT !.checks = @ + 1], done |-> TRUE, ret |-> "True", sets |-> 1]
  ELSE IF p.counter + 1 >= p.maxWait
       THEN [st |-> st, p |-> [p EXCEPT !.counter = @ + 1, !.checks = @ + 1],
             done |-> TRUE, ret |-> "False", sets |-> 0]
       ELSE [st |-> st, p |-> [p EXCEPT !.counter = @ + 1, !.checks = @ + 1],
             done |-> FALSE, ret |-> "Polling", sets |-> 0]

\* variant of startSwitchPoll: a timeout deletes the run instance again
startSwitchPoll_Rollback(st, p) ==
  IF isConnectedToMux(st, p.uuid)
  THEN [st |-> [st EXCEPT !.netvs = @ \cup {p.uuid}],
        p |-> [p EXCEPT !.checks = @ + 1], done |-> TRUE, ret |-> "True", sets |-> 1]
  ELSE IF p.counter + 1 > p.maxWait
       THEN [st |-> stopSwitch(st, p.uuid).st,
             p |-> [p EXCEPT !.counter = @ + 1, !.checks = @ + 1],
             done |-> TRUE, ret |-> "False", sets |-> 0]
       ELSE [st |-> st, p |-> [p EXCEPT !.counter = @ + 1, !.checks = @ + 1],
             done |-> FALSE, ret |-> "Polling", sets |-> 0]

\* variant of startSwitchPoll: a connection that was seen is checked once more
\* before the loop is left
startSwitchPoll_ChecksAgain(st, p) ==
  IF isConnectedToMux(st, p.uuid)
  THEN [st |-> [st EXCEPT !.netvs = @ \cup {p.uuid}],
        p |-> [p EXCEPT !.checks = @ + 2], done |-> TRUE, ret |-> "True", sets |-> 1]
  ELSE IF p.counter + 1 > p.maxWait
       THEN [st |-> st, p |-> [p EXCEPT !.counter = @ + 1, !.checks = @ + 1],
             done |-> TRUE, ret |-> "False", sets |-> 0]
       ELSE [st |-> st, p |-> [p EXCEPT !.counter = @ + 1, !.checks = @ + 1],
             done |-> FALSE, ret |-> "Polling", sets |-> 0]

\* variant of startSwitchPoll: the networking.vswitch set is issued on a
\* timeout too
startSwitchPoll_SetsOnTimeout(st, p) ==
  IF isConnectedToMux(st, p.uuid)
  THEN [st |-> [st EXCEPT !.netvs = @ \cup {p.uuid}],
        p |-> [p EXCEPT !.checks = @ + 1], done |-> TRUE, ret |-> "True", sets |-> 1]
  ELSE IF p.counter + 1 > p.maxWait
       THEN [st |-> [st EXCEPT !.netvs = @ \cup {p.uuid}],
             p |-> [p EXCEPT !.counter = @ + 1, !.checks = @ + 1],
             done |-> TRUE, ret |-> "False", sets |-> 1]
       ELSE [st |-> st, p |-> [p EXCEPT !.counter = @ + 1, !.checks = @ + 1],
             done |-> FALSE, ret |-> "Polling", sets |-> 0]

\* variant of startSwitchPoll: the test of connected after the loop is left
\* out, so a timeout goes on to "return True"
startSwitchPoll_TrueOnTimeout(st, p) ==
  IF isConnectedToMux(st, p.uuid)
  THEN [st |-> [st EXCEPT !.netvs = @ \cup {p.uuid}],
        p |-> [p EXCEPT !.checks = @ + 1], done |-> TRUE, ret |-> "True", sets |-> 1]
  ELSE IF p.counter + 1 > p.maxWait
       THEN [st |-> st, p |-> [p EXCEPT !.counter = @ + 1, !.checks = @ + 1],
             done |-> TRUE, ret |-> "True", sets |-> 0]
       ELSE [st |-> st, p |-> [p EXCEPT !.counter = @ + 1, !.checks = @ + 1],
             done |-> FALSE, ret |-> "Polling", sets |-> 0]

\* Lines 323-346: one iteration of the loop, and what follows the loop when
\* the iteration leaves it.  p is [uuid, maxWait, counter, checks]; checks
\* counts the isConnectedToMux calls.  done says whether the method returned,
\* sets is the number of networking.vswitch set calls the iteration issued.
startSwitchPoll(st, p) ==
  IF isConnectedToMux(st, p.uuid) /\ Fails(st, "set", NetvTid)
  THEN [st |-> st, p |-> [p EXCEPT !.checks = @ + 1], done |-> TRUE,
        ret |-> "CvbnApiFailure", sets |-> 1]
  ELSE IF isConnectedToMux(st, p.uuid)
  THEN [st |-> [st EXCEPT !.netvs = @ \cup {p.uuid}],
        p |-> [p EXCEPT !.checks = @ + 1], done |-> TRUE, ret |-> "True", sets |-> 1]
  ELSE IF p.counter + 1 > p.maxWait
       THEN [st |-> st, p |-> [p EXCEPT !.counter = @ + 1, !.checks = @ + 1],
             done |-> TRUE, ret |-> "False", sets |-> 0]
       ELSE [st |-> st, p |-> [p EXCEPT !.counter = @ + 1, !.checks = @ + 1],
             done |-> FALSE, ret |-> "Polling", sets |-> 0]

\* ---- state machine ----
NoPoll == [uuid |-> 0, maxWait |-> 0, counter |-> 0, checks |-> 0]

\* job: the deleteNetwork call whose loop is running or ran last, when its
\* caller is not the only client of the store: the subnets list it read and
\* the index of the subnet it deletes next.
NoJob == [uuid |-> 0, networkId |-> 0, listed |-> <<>>, next |-> 1]

\* request: the arguments of an addPortGre call that passed its two guards,
\* and the params it hands to the store's set method (None before it built
\* them).  A dict is a record; the empty dict {} is the empty set.
NoRequest == [args |-> None, params |-> None]

\* clients: the calls of two callers that share the store, each advancing by
\* one store call at a time.  lock says whether the callers serialize their
\* calls, as the class expects them to; op, pc, uuid, maxWait and counter are
\* a call's method, position, arguments and loop counter, ret what the
\* caller's last call returned.
ClientIds == {1, 2}
NoCall ==
  [op |-> "none", pc |-> "idle", uuid |-> 0, maxWait |-> 0, counter |-> 0,
   ret |-> "None"]
NoClients == [lock |-> TRUE, calls |-> [c \in ClientIds |-> NoCall]]

\* last: the call that ended last.  op and sw name the method and its switch
\* argument, maxWait is the second argument of a startSwitch that entered its
\* loop, ret and rid the result, checks the number of isConnectedToMux calls
\* a startSwitch made.
Call(op, sw, maxWait, ret, rid, checks) ==
  [op |-> op, sw |-> sw, maxWait |-> maxWait, ret |-> ret, rid |-> rid,
   checks |-> checks]

Init ==
  /\ store = EmptyStore
  /\ pc = "idle"
  /\ poll = NoPoll
  /\ last = Call("init", 0, 0, "None", 0, 0)
  /\ job = NoJob
  /\ devices = <<>>
  /\ request = NoRequest
  /\ clients = NoClients

\* ids a caller passes: those of live resources, those a binding still names,
\* and 0 for an id the store never issued or has deleted.  The switch-level
\* methods are called with any switch id, the others with a defined one.
IdsOf(seq) == {seq[i].id : i \in 1..Len(seq)}
BoundPorts(tid) ==
  {store.domainPorts[i].port :
     i \in {j \in 1..Len(store.domainPorts) : store.domainPorts[j].tid = tid}}
SwitchArgs == IdsOf(store.switches) \cup {0}
Switches == IdsOf(store.switches)
NetworkArgs == IdsOf(store.networks) \cup {0}
SubnetArgs == IdsOf(store.subnets) \cup {0}
DomainArgs ==
  IdsOf(store.domains)
    \cup {store.domainPorts[i].domain : i \in 1..Len(store.domainPorts)} \cup {0}
PortGreArgs == IdsOf(store.portsGre) \cup BoundPorts(GreTid) \cup {0}
PortVlanArgs == IdsOf(store.portsVlan) \cup BoundPorts(RawTid) \cup {0}

\* a whole method call: the store moves to the call's result
Returns(op, sw, r) ==
  /\ pc = "idle"
  /\ r.st.nextId <= MaxIds + 1
  /\ Len(r.st.domainPorts) <= MaxBindings
  /\ store' = r.st
  /\ last' = Call(op, sw, 0, r.ret, r.rid, 0)
  /\ UNCHANGED <<pc, poll, job, devices, request, clients>>

AddSwitch ==
  /\ Len(store.switches) < MaxSwitches
  /\ \E name \in SwitchNames : Returns("addSwitch", 0, addSwitch(store, name))

DeleteSwitch ==
  \E uuid \in SwitchArgs : Returns("deleteSwitch", uuid, deleteSwitch(store, uuid))

StartSwitch ==
  \E uuid \in SwitchArgs, maxWait \in 0..MaxWaitBound :
    LET b == startSwitchBegin(store, uuid) IN
    /\ pc = "idle"
    /\ b.st.nextId <= MaxIds + 1
    /\ store' = b.st
    /\ UNCHANGED <<job, devices, request, clients>>
    /\ IF b.polling
       THEN /\ pc' = "poll"
            /\ poll' = [uuid |-> uuid, maxWait |-> maxWait, counter |-> 0, checks |-> 0]
            /\ last' = Call("startSwitch", uuid, maxWait, "Polling", 0, 0)
       ELSE /\ last' = Call("startSwitch", uuid, 0,
                            IF b.raised THEN "CvbnApiFailure" ELSE "False", 0, 0)
            /\ UNCHANGED <<pc, poll>>

StartSwitchPoll ==
  /\ pc = "poll"
  /\ UNCHANGED <<job, devices, request, clients>>
  /\ LET r == startSwitchPoll(store, poll) IN
     /\ store' = r.st
     /\ last' = Call("startSwitch", poll.uuid, poll.maxWait, r.ret, 0, r.p.checks)
     /\ IF r.done
        THEN pc' = "idle" /\ poll' = NoPoll
        ELSE pc' = "poll" /\ poll' = r.p

StopSwitch ==
  \E uuid \in SwitchArgs : Returns("stopSwitch", uuid, stopSwitch(store, uuid))

\* the environment: the started instance connects to the mux, and the
\* connection goes away once the instance is gone
MuxConnect ==
  \E i \in 1..Len(store.servers) :
    /\ store.servers[i].configuration \notin store.connections
    /\ store' = [store EXCEPT !.connections = @ \cup {store.servers[i].configuration}]
    /\ last' = Call("muxConnect", store.servers[i].configuration, 0, "None", 0, 0)
    /\ UNCHANGED <<pc, poll, job, devices, request, clients>>

MuxDisconnect ==
  \E n \in store.connections :
    /\ \A i \in 1..Len(store.servers) : store.servers[i].configuration # n
    /\ store' = [store EXCEPT !.connections = @ \ {n}]
    /\ last' = Call("muxDisconnect", n, 0, "None", 0, 0)
    /\ UNCHANGED <<pc, poll, job, devices, request, clients>>

AddNetwork ==
  \E uuid \in Switches, name \in NetworkNames, hif \in HostInterfaces,
     cidr \in Cidrs \cup {"None"} :
    Returns("addNetwork", uuid, addNetwork(store, uuid, name, hif, cidr))

DeleteNetwork ==
  \E uuid \in Switches, networkId \in NetworkArgs :
    Returns("deleteNetwork", uuid, deleteNetwork(store, uuid, networkId))

AddSubnet ==
  \E uuid \in Switches, networkId \in NetworkArgs, cidr \in Cidrs :
    Returns("addSubnet", uuid, addSubnet(store, uuid, networkId, cidr))

DeleteSubnet ==
  \E uuid \in Switches, subnetId \in SubnetArgs :
    Returns("deleteSubnet", uuid, deleteSubnet(store, uuid, subnetId))

AddDomain ==
  \E uuid \in Switches, name \in DomainNames :
    Returns("addDomain", uuid, addDomain(store, uuid, name))

DeleteDomain ==
  \E uuid \in Switches, domainId \in DomainArgs :
    Returns("deleteDomain", uuid, deleteDomain(store, uuid, domainId))

AddPortGre ==
  \E uuid \in Switches, subnetId \in SubnetArgs, name \in PortNames :
    Returns("addPortGre", uuid, addPortGre(store, uuid, subnetId, name))

DeletePortGre ==
  \E uuid \in Switches, portId \in PortGreArgs :
    Returns("deletePortGre", uuid, deletePortGre(store, uuid, portId))

AddPortVlan ==
  \E uuid \in Switches, networkId \in NetworkArgs, name \in PortNames, vlan \in Vlans :
    Returns("addPortVlan", uuid,
            addPortVlan(store, uuid, networkId, name, vlan))

DeletePortVlan ==
  \E uuid \in Switches, portId \in PortVlanArgs :
    Returns("deletePortVlan", uuid, deletePortVlan(store, uuid, portId))

AddPortGreDomain ==
  \E uuid \in Switches, domainId \in DomainArgs, portId \in PortGreArgs :
    Returns("addPortGreDomain", uuid,
            addPortGreDomain(store, uuid, domainId, portId))

DeletePortGreDomain ==
  \E uuid \in Switches, domainId \in DomainArgs, portId \in PortGreArgs :
    Returns("deletePortGreDomain", uuid,
            deletePortGreDomain(store, uuid, domainId, portId))

AddPortVlanDomain ==
  \E uuid \in Switches, domainId \in DomainArgs, portId \in PortVlanArgs :
    Returns("addPortVlanDomain", uuid,
            addPortVlanDomain(store, uuid, domainId, portId))

DeletePortVlanDomain ==
  \E uuid \in Switches, domainId \in DomainArgs, portId \in PortVlanArgs :
    Returns("deletePortVlanDomain", uuid,
            deletePortVlanDomain(store, uuid, domainId, portId))

Next ==
  \/ AddSwitch \/ DeleteSwitch \/ StartSwitch \/ StartSwitchPoll \/ StopSwitch
  \/ MuxConnect \/ MuxDisconnect
  \/ AddNetwork \/ DeleteNetwork \/ AddSubnet \/ DeleteSubnet
  \/ AddDomain \/ DeleteDomain
  \/ AddPortGre \/ DeletePortGre \/ AddPortVlan \/ DeletePortVlan
  \/ AddPortGreDomain \/ DeletePortGreDomain
  \/ AddPortVlanDomain \/ DeletePortVlanDomain

Spec == Init /\ [][Next]_vars

\* ---- a store that can fail, and a second client ----
\* The store is remote: a set can be answered with an error, and other
\* clients call it between two store calls of a method.  Here deleteNetwork
\* runs one loop iteration per step, so that a stopSwitch or a deleteSubnet of
\* another client can fall between two iterations.

\* an abort that deletes the network all the same
deleteNetworkStep_DeletesNetwork(st, j) ==
  LET r == deleteSubnet(st, j.uuid, j.listed[j.next]) IN
  IF r.ret # "True"
  THEN [st |-> [r.st EXCEPT !.networks = RemoveId(@, j.networkId)],
        j |-> j, done |-> TRUE, ret |-> "False"]
  ELSE IF j.next < Len(j.listed)
  THEN [st |-> r.st, j |-> [j EXCEPT !.next = @ + 1], done |-> FALSE, ret |-> "Deleting"]
  ELSE [st |-> [r.st EXCEPT !.networks = RemoveId(@, j.networkId)],
        j |-> [j EXCEPT !.next = @ + 1], done |-> TRUE, ret |-> "True"]

\* one iteration of the loop of deleteNetwork, and after the last one the
\* delete of the network
deleteNetworkStep(st, j) ==
  LET r == deleteSubnet(st, j.uuid, j.listed[j.next]) IN
  IF r.ret = "CvbnApiFailure"
  THEN [st |-> r.st, j |-> j, done |-> TRUE, ret |-> "CvbnApiFailure"]
  ELSE IF r.ret # "True"
  THEN [st |-> r.st, j |-> j, done |-> TRUE, ret |-> "False"]
  ELSE IF j.next < Len(j.listed)
  THEN [st |-> r.st, j |-> [j EXCEPT !.next = @ + 1], done |-> FALSE, ret |-> "Deleting"]
  ELSE IF Fails(r.st, "delete", NetworkTid)
  THEN [st |-> r.st, j |-> j, done |-> TRUE, ret |-> "CvbnApiFailure"]
  ELSE [st |-> [r.st EXCEPT !.networks = RemoveId(@, j.networkId)],
        j |-> [j EXCEPT !.next = @ + 1], done |-> TRUE, ret |-> "True"]

\* deleteNetwork up to its loop; a call that is refused, or whose network
\* lists no subnet, ends here
DeleteNetworkBegin ==
  \E uuid \in Switches, networkId \in NetworkArgs :
    LET networkDetails == getNetworkId(store, uuid, networkId) IN
    /\ pc = "idle"
    /\ UNCHANGED <<poll, devices, request, clients>>
    /\ IF networkDetails = None \/ networkDetails[1].subnets = <<>>
       THEN /\ store' = deleteNetwork(store, uuid, networkId).st
            /\ last' = Call("deleteNetwork", uuid, 0,
                            deleteNetwork(store, uuid, networkId).ret, 0, 0)
            /\ job' = NoJob
            /\ UNCHANGED pc
       ELSE /\ pc' = "deleteNetwork"
            /\ job' = [uuid |-> uuid, networkId |-> networkId,
                       listed |-> networkDetails[1].subnets, next |-> 1]
            /\ last' = Call("deleteNetwork", uuid, 0, "Deleting", 0, 0)
            /\ UNCHANGED store

DeleteNetworkStep ==
  /\ pc = "deleteNetwork"
  /\ LET r == deleteNetworkStep(store, job) IN
     /\ store' = r.st
     /\ job' = r.j
     /\ last' = Call("deleteNetwork", job.uuid, 0, r.ret, 0, 0)
     /\ pc' = IF r.done THEN "idle" ELSE "deleteNetwork"
  /\ UNCHANGED <<poll, devices, request, clients>>

\* calls of another client while the loop of deleteNetwork runs
OtherStopSwitch ==
  /\ pc = "deleteNetwork"
  /\ stopSwitch(store, job.uuid).ret = "True"
  /\ store' = stopSwitch(store, job.uuid).st
  /\ UNCHANGED <<pc, poll, last, job, devices, request, clients>>

OtherDeleteSubnet ==
  /\ pc = "deleteNetwork"
  /\ \E subnetId \in IdsOf(store.subnets) :
        /\ deleteSubnet(store, job.uuid, subnetId).ret = "True"
        /\ store' = deleteSubnet(store, job.uuid, subnetId).st
  /\ UNCHANGED <<pc, poll, last, job, devices, request, clients>>

\* the store starts and stops answering the set of a subnet with an error
StoreFails ==
  /\ pc = "idle"
  /\ ~Fails(store, "set", SubnetTid)
  /\ store' = [store EXCEPT !.failing = @ \cup {<<"set", SubnetTid>>}]
  /\ UNCHANGED <<pc, poll, last, job, devices, request, clients>>

StoreRecovers ==
  /\ pc = "idle"
  /\ Fails(store, "set", SubnetTid)
  /\ store' = [store EXCEPT !.failing = @ \ {<<"set", SubnetTid>>}]
  /\ UNCHANGED <<pc, poll, last, job, devices, request, clients>>

NextFault ==
  \/ AddSwitch \/ StartSwitch \/ StartSwitchPoll \/ StopSwitch
  \/ MuxConnect \/ MuxDisconnect
  \/ AddNetwork \/ AddSubnet \/ DeleteSubnet
  \/ DeleteNetworkBegin \/ DeleteNetworkStep
  \/ OtherStopSwitch \/ OtherDeleteSubnet
  \/ StoreFails \/ StoreRecovers

SpecFault == Init /\ [][NextFault]_vars

\* ---- calls during which the store fails ----
\* The store answers one kind of call, a set or a delete of one tid, with an
\* error for the time of one method call.  <<method, tid>> is the kind.
\* the store calls a method can make, from its code and that of the methods
\* it calls
Set(tid) == <<"set", tid>>
Delete(tid) == <<"delete", tid>>
deleteNetworkKinds == {Delete(SubnetTid), Delete(NetworkTid)}
addNetworkKinds == {Set(NetworkTid), Set(SubnetTid)} \cup deleteNetworkKinds
deleteDomainKinds ==
  {Delete(DomainPortsTid), Delete(GreTid), Delete(RawTid), Delete(DomainTid)}
deleteSwitchKinds == {Delete(ServerTid), Delete(VswitchTid)} \cup deleteDomainKinds
startSwitchKinds == {Set(ServerTid), Set(NetvTid)}

DuringFault(st, f) == [st EXCEPT !.failing = {f}]
AfterFault(r) == [r EXCEPT !.st.failing = {}]

\* a whole method call that ends with CvbnApiFailure
Raises(op, sw, r) ==
  /\ r.ret = "CvbnApiFailure"
  /\ Returns(op, sw, AfterFault(r))

FailingAddSwitch ==
  /\ Len(store.switches) < MaxSwitches
  /\ \E name \in SwitchNames, f \in {Set(VswitchTid)} :
        Raises("addSwitch", 0, addSwitch(DuringFault(store, f), name))

FailingDeleteSwitch ==
  \E uuid \in SwitchArgs, f \in deleteSwitchKinds :
    Raises("deleteSwitch", uuid, deleteSwitch(DuringFault(store, f), uuid))

FailingStartSwitch ==
  \E uuid \in SwitchArgs, f \in startSwitchKinds :
    /\ pc = "idle"
    /\ startSwitchBegin(DuringFault(store, f), uuid).raised
    /\ last' = Call("startSwitch", uuid, 0, "CvbnApiFailure", 0, 0)
    /\ UNCHANGED <<store, pc, poll, job, devices, request, clients>>

FailingStartSwitchPoll ==
  \E f \in startSwitchKinds :
    LET r == startSwitchPoll(DuringFault(store, f), poll) IN
    /\ pc = "poll"
    /\ r.ret = "CvbnApiFailure"
    /\ store' = [r.st EXCEPT !.failing = {}]
    /\ last' = Call("startSwitch", poll.uuid, poll.maxWait, r.ret, 0, r.p.checks)
    /\ pc' = "idle" /\ poll' = NoPoll
    /\ UNCHANGED <<job, devices, request, clients>>

FailingStopSwitch ==
  \E uuid \in SwitchArgs, f \in {Delete(ServerTid)} :
    Raises("stopSwitch", uuid, stopSwitch(DuringFault(store, f), uuid))

FailingAddNetwork ==
  \E uuid \in Switches, name \in NetworkNames, hif \in HostInterfaces,
     cidr \in Cidrs \cup {"None"}, f \in addNetworkKinds :
    Raises("addNetwork", uuid, addNetwork(DuringFault(store, f), uuid, name, hif, cidr))

FailingDeleteNetwork ==
  \E uuid \in Switches, networkId \in NetworkArgs, f \in deleteNetworkKinds :
    Raises("deleteNetwork", uuid, deleteNetwork(DuringFault(store, f), uuid, networkId))

FailingAddSubnet ==
  \E uuid \in Switches, networkId \in NetworkArgs, cidr \in Cidrs, f \in {Set(SubnetTid)} :
    Raises("addSubnet", uuid, addSubnet(DuringFault(store, f), uuid, networkId, cidr))

FailingDeleteSubnet ==
  \E uuid \in Switches, subnetId \in SubnetArgs, f \in {Delete(SubnetTid)} :
    Raises("deleteSubnet", uuid, deleteSubnet(DuringFault(store, f), uuid, subnetId))

FailingAddDomain ==
  \E uuid \in Switches, name \in DomainNames, f \in {Set(DomainTid)} :
    Raises("addDomain", uuid, addDomain(DuringFault(store, f), uuid, name))

FailingDeleteDomain ==
  \E uuid \in Switches, domainId \in DomainArgs, f \in deleteDomainKinds :
    Raises("deleteDomain", uuid, deleteDomain(DuringFault(store, f), uuid, domainId))

FailingAddPortGre ==
  \E uuid \in Switches, subnetId \in SubnetArgs, name \in PortNames, f \in {Set(GreTid)} :
    Raises("addPortGre", uuid, addPortGre(DuringFault(store, f), uuid, subnetId, name))

FailingDeletePortGre ==
  \E uuid \in Switches, portId \in PortGreArgs, f \in {Delete(GreTid)} :
    Raises("deletePortGre", uuid, deletePortGre(DuringFault(store, f), uuid, portId))

FailingAddPortVlan ==
  \E uuid \in Switches, networkId \in NetworkArgs, name \in PortNames,
     vlan \in Vlans, f \in {Set(RawTid)} :
    Raises("addPortVlan", uuid,
           addPortVlan(DuringFault(store, f), uuid, networkId, name, vlan))

FailingDeletePortVlan ==
  \E uuid \in Switches, portId \in PortVlanArgs, f \in {Delete(RawTid)} :
    Raises("deletePortVlan", uuid, deletePortVlan(DuringFault(store, f), uuid, portId))

FailingAddPortGreDomain ==
  \E uuid \in Switches, domainId \in DomainArgs, portId \in PortGreArgs,
     f \in {Set(DomainPortsTid)} :
    Raises("addPortGreDomain", uuid,
           addPortGreDomain(DuringFault(store, f), uuid, domainId, portId))

FailingAddPortVlanDomain ==
  \E uuid \in Switches, domainId \in DomainArgs, portId \in PortVlanArgs,
     f \in {Set(DomainPortsTid)} :
    Raises("addPortVlanDomain", uuid,
           addPortVlanDomain(DuringFault(store, f), uuid, domainId, portId))

FailingDeletePortVlanDomain ==
  \E uuid \in Switches, domainId \in DomainArgs, portId \in PortVlanArgs,
     f \in {Delete(DomainPortsTid)} :
    Raises("deletePortVlanDomain", uuid,
           deletePortVlanDomain(DuringFault(store, f), uuid, domainId, portId))

\* deletePortGreDomain never gets as far as its delete call (its
\* isPortGreDomain test refuses every call), so no call of it can fail
NextStoreFault ==
  \/ AddSwitch \/ DeleteSwitch \/ StartSwitch \/ StartSwitchPoll \/ StopSwitch
  \/ MuxConnect \/ MuxDisconnect
  \/ AddNetwork \/ DeleteNetwork \/ AddSubnet \/ DeleteSubnet
  \/ AddDomain \/ DeleteDomain
  \/ AddPortGre \/ DeletePortGre \/ AddPortVlan \/ DeletePortVlan
  \/ AddPortGreDomain \/ DeletePortGreDomain
  \/ AddPortVlanDomain \/ DeletePortVlanDomain
  \/ FailingAddSwitch \/ FailingDeleteSwitch \/ FailingStartSwitch
  \/ FailingStartSwitchPoll \/ FailingStopSwitch
  \/ FailingAddNetwork \/ FailingDeleteNetwork
  \/ FailingAddSubnet \/ FailingDeleteSubnet
  \/ FailingAddDomain \/ FailingDeleteDomain
  \/ FailingAddPortGre \/ FailingDeletePortGre
  \/ FailingAddPortVlan \/ FailingDeletePortVlan
  \/ FailingAddPortGreDomain \/ FailingAddPortVlanDomain
  \/ FailingDeletePortVlanDomain

SpecStoreFault == Init /\ [][NextStoreFault]_vars

\* ---- the device lookups of the rcs class ----
\* devices is the listing the RCS server answers GET /admin/devices with: one
\* record [id, name, uid] per device, ids and uids distinct.
DeviceNames == {"Device #1", "Device #2"}
DeviceUids == {"CN=vCPE-1", "CN=vCPE-2", "CN=vCPE-3"}
DeviceNameArgs == DeviceNames \cup {"wrong"}
DeviceUidArgs == DeviceUids \cup {"wrong"}
\* devices the server lists
MaxDevices == 3

Device == [id : 1..MaxDevices, name : DeviceNames, uid : DeviceUids]

DeviceListings ==
  {l \in UNION {[1..n -> Device] : n \in 0..MaxDevices} :
     \A i \in 1..Len(l), j \in 1..Len(l) :
        i # j => (l[i].id # l[j].id /\ l[i].uid # l[j].uid)}

\* up says whether the request is answered
getAdminDevices(devs, up) ==
  IF up THEN [ret |-> "Obj", devices |-> devs]
  ELSE [ret |-> "RcsApiFailure", devices |-> <<>>]

RECURSIVE DeviceLoop(_, _, _, _)
\* the for loop of the two lookups: every matching device overwrites
\* retValue, and the loop has no break
DeviceLoop(devicesList, key, value, retValue) ==
  IF devicesList = <<>> THEN retValue
  ELSE DeviceLoop(Tail(devicesList), key, value,
                  IF Head(devicesList)[key] = value
                  THEN <<Head(devicesList).id>> ELSE retValue)

getAdminDeviceIdByName(devs, up, name) ==
  LET l == getAdminDevices(devs, up) IN
  IF l.ret = "RcsApiFailure" THEN [ret |-> "RcsApiFailure", val |-> None]
  ELSE [ret |-> "Val", val |-> DeviceLoop(l.devices, "name", name, None)]

getAdminDeviceIdByUid(devs, up, uid) ==
  LET l == getAdminDevices(devs, up) IN
  IF l.ret = "RcsApiFailure" THEN [ret |-> "RcsApiFailure", val |-> None]
  ELSE [ret |-> "Val", val |-> DeviceLoop(l.devices, "uid", uid, None)]

InitRcs ==
  /\ store = EmptyStore
  /\ pc = "idle"
  /\ poll = NoPoll
  /\ last = Call("init", 0, 0, "None", 0, 0)
  /\ job = NoJob
  /\ devices \in DeviceListings
  /\ request = NoRequest
  /\ clients = NoClients

\* a lookup call: last holds what it returned (rid 0 for None)
RcsReturns(op, r) ==
  /\ last' = Call(op, 0, 0, IF r.ret = "Val" /\ r.val = None THEN "None" ELSE r.ret,
                  IF r.val = None THEN 0 ELSE r.val[1], 0)
  /\ UNCHANGED <<store, pc, poll, job, devices, request, clients>>

GetAdminDeviceIdByName ==
  \E name \in DeviceNameArgs, up \in BOOLEAN :
    RcsReturns("getAdminDeviceIdByName", getAdminDeviceIdByName(devices, up, name))

GetAdminDeviceIdByUid ==
  \E uid \in DeviceUidArgs, up \in BOOLEAN :
    RcsReturns("getAdminDeviceIdByUid", getAdminDeviceIdByUid(devices, up, uid))

NextRcs == GetAdminDeviceIdByName \/ GetAdminDeviceIdByUid

SpecRcs == InitRcs /\ [][NextRcs]_vars

\* ---- the set request of addPortGre ----
IpAddresses == {"192.168.30.10", "192.168.30.20"}
\* local_ip and remote_ip: None (the default) or <<address>>
IpArgs == {None} \cup {<<ip>> : ip \in IpAddresses}
\* subnet ids a request names
MaxSubnetId == 3

GreArgs ==
  [subnetId : 1..MaxSubnetId, portName : PortNames,
   local_ip : IpArgs, remote_ip : IpArgs,
   checksum : BOOLEAN, seqnum : BOOLEAN]

\* lines 1435-1447: both endpoint keys are assigned on either branch
addPortGreParams(subnetId, portName, local_ip, remote_ip, checksum, seqnum) ==
  [tid |-> GreTid,
   name |-> portName,
   local_subnet |-> subnetId,
   local_endpoint |-> IF local_ip = None THEN {}
                      ELSE [ip_address |-> local_ip[1]],
   remote_endpoint |-> IF remote_ip = None THEN {}
                       ELSE [ip_address |-> remote_ip[1]],
   checksum_present |-> checksum,
   seq_num_present |-> seqnum]

InitRequest ==
  /\ store = EmptyStore
  /\ pc = "idle"
  /\ poll = NoPoll
  /\ last = Call("init", 0, 0, "None", 0, 0)
  /\ job = NoJob
  /\ devices = <<>>
  /\ request = NoRequest
  /\ clients = NoClients

\* addPortGre is called with arguments that pass its guards
CallAddPortGre ==
  /\ request.params = None
  /\ \E a \in GreArgs : request' = [args |-> <<a>>, params |-> None]
  /\ UNCHANGED <<store, pc, poll, last, job, devices, clients>>

\* it builds the params of its set call
BuildAddPortGreParams ==
  /\ request.args # None
  /\ request.params = None
  /\ LET a == request.args[1] IN
     request' = [request EXCEPT !.params =
                   <<addPortGreParams(a.subnetId, a.portName, a.local_ip,
                                      a.remote_ip, a.checksum, a.seqnum)>>]
  /\ UNCHANGED <<store, pc, poll, last, job, devices, clients>>

NextRequest == CallAddPortGre \/ BuildAddPortGreParams

SpecRequest == InitRequest /\ [][NextRequest]_vars

\* ---- two callers, one store call at a time ----
\* a call that returned
Returned(c, ret) ==
  [c EXCEPT !.op = "none", !.pc = "idle", !.counter = 0, !.maxWait = 0, !.ret = ret]

\* variant of startSwitchStep: isRunning is not asked
startSwitchStep_NoRunningCheck(st, c) ==
  CASE c.pc = "isSwitch" ->
         IF ~isSwitch(st, c.uuid) THEN [st |-> st, c |-> Returned(c, "False")]
         ELSE [st |-> st, c |-> [c EXCEPT !.pc = "setServer"]]
    [] c.pc = "getRunId" -> [st |-> st, c |-> [c EXCEPT !.pc = "setServer"]]
    [] c.pc = "walkServers" -> [st |-> st, c |-> [c EXCEPT !.pc = "setServer"]]
    [] c.pc = "setServer" ->
         [st |-> [st EXCEPT
                    !.servers = Append(@, [id |-> st.nextId, configuration |-> c.uuid]),
                    !.nextId = @ + 1],
          c |-> [c EXCEPT !.pc = "isConnectedToMux", !.counter = 0]]
    [] c.pc = "isConnectedToMux" ->
         IF isConnectedToMux(st, c.uuid)
         THEN [st |-> st, c |-> [c EXCEPT !.pc = "setNetworking"]]
         ELSE IF c.counter + 1 > c.maxWait
         THEN [st |-> st, c |-> Returned(c, "False")]
         ELSE [st |-> st, c |-> [c EXCEPT !.counter = @ + 1]]
    [] c.pc = "setNetworking" ->
         [st |-> [st EXCEPT !.netvs = @ \cup {c.uuid}], c |-> Returned(c, "True")]

\* startSwitch up to its next store call.  isSwitch is line 300; getRunId and
\* walkServers are the two walks of the isRunning call of line 303 (the
\* isSwitch of getRunId, then its walk of compute.server); setServer is the
\* set of line 311; isConnectedToMux one iteration of the loop; setNetworking
\* the set of line 336.
startSwitchStep(st, c) ==
  CASE c.pc = "isSwitch" ->
         IF ~isSwitch(st, c.uuid) THEN [st |-> st, c |-> Returned(c, "False")]
         ELSE [st |-> st, c |-> [c EXCEPT !.pc = "getRunId"]]
    [] c.pc = "getRunId" ->
         IF ~isSwitch(st, c.uuid)
         THEN [st |-> st, c |-> [c EXCEPT !.pc = "setServer"]]
         ELSE [st |-> st, c |-> [c EXCEPT !.pc = "walkServers"]]
    [] c.pc = "walkServers" ->
         IF \E i \in 1..Len(st.servers) : st.servers[i].configuration = c.uuid
         THEN [st |-> st, c |-> Returned(c, "False")]
         ELSE [st |-> st, c |-> [c EXCEPT !.pc = "setServer"]]
    [] c.pc = "setServer" ->
         [st |-> [st EXCEPT
                    !.servers = Append(@, [id |-> st.nextId, configuration |-> c.uuid]),
                    !.nextId = @ + 1],
          c |-> [c EXCEPT !.pc = "isConnectedToMux", !.counter = 0]]
    [] c.pc = "isConnectedToMux" ->
         IF isConnectedToMux(st, c.uuid)
         THEN [st |-> st, c |-> [c EXCEPT !.pc = "setNetworking"]]
         ELSE IF c.counter + 1 > c.maxWait
         THEN [st |-> st, c |-> Returned(c, "False")]
         ELSE [st |-> st, c |-> [c EXCEPT !.counter = @ + 1]]
    [] c.pc = "setNetworking" ->
         [st |-> [st EXCEPT !.netvs = @ \cup {c.uuid}], c |-> Returned(c, "True")]

\* deleteSwitch up to the next method it calls or store call it makes:
\* isSwitch (line 253), isRunning (256), stopSwitch (257), getDomains with the
\* loop over its result (260-262), the delete of compute.vswitch (264-266)
deleteSwitchStep(st, c) ==
  CASE c.pc = "isSwitch" ->
         IF ~isSwitch(st, c.uuid) THEN [st |-> st, c |-> Returned(c, "False")]
         ELSE [st |-> st, c |-> [c EXCEPT !.pc = "isRunning"]]
    [] c.pc = "isRunning" ->
         IF isRunning(st, c.uuid)
         THEN [st |-> st, c |-> [c EXCEPT !.pc = "stopSwitch"]]
         ELSE [st |-> st, c |-> [c EXCEPT !.pc = "getDomains"]]
    [] c.pc = "stopSwitch" ->
         IF stopSwitch(st, c.uuid).ret # "True"
         THEN [st |-> st, c |-> Returned(c, "False")]
         ELSE [st |-> stopSwitch(st, c.uuid).st,
               c |-> [c EXCEPT !.pc = "getDomains"]]
    [] c.pc = "getDomains" ->
         IF getDomains(st, c.uuid).none
         THEN [st |-> st, c |-> Returned(c, "TypeError")]
         ELSE IF deleteSwitchDomains(st, c.uuid,
                                     getDomains(st, c.uuid).children).ret # "True"
         THEN [st |-> deleteSwitchDomains(st, c.uuid,
                                          getDomains(st, c.uuid).children).st,
               c |-> Returned(c, "False")]
         ELSE [st |-> deleteSwitchDomains(st, c.uuid,
                                          getDomains(st, c.uuid).children).st,
               c |-> [c EXCEPT !.pc = "deleteVswitch"]]
    [] c.pc = "deleteVswitch" ->
         [st |-> [st EXCEPT !.switches = RemoveId(@, c.uuid)],
          c |-> Returned(c, "True")]

\* One switch is defined.  Callers either serialize all their calls or none.
InitClients ==
  /\ \E name \in SwitchNames : store = addSwitch(EmptyStore, name).st
  /\ pc = "idle"
  /\ poll = NoPoll
  /\ last = Call("init", 0, 0, "None", 0, 0)
  /\ job = NoJob
  /\ devices = <<>>
  /\ request = NoRequest
  /\ \E lock \in BOOLEAN : clients = [NoClients EXCEPT !.lock = lock]

\* a caller that is not in a call makes one; callers that serialize wait
\* until no call is running
ClientCalls ==
  \E c \in ClientIds, op \in {"startSwitch", "deleteSwitch"},
     uuid \in SwitchArgs, maxWait \in 0..MaxWaitBound :
    /\ clients.calls[c].pc = "idle"
    /\ clients.lock => \A d \in ClientIds : clients.calls[d].pc = "idle"
    /\ clients' = [clients EXCEPT !.calls[c] =
                     [op |-> op, pc |-> "isSwitch", uuid |-> uuid,
                      maxWait |-> IF op = "startSwitch" THEN maxWait ELSE 0,
                      counter |-> 0, ret |-> "None"]]
    /\ UNCHANGED <<store, pc, poll, last, job, devices, request>>

ClientStartSwitchStep ==
  \E c \in ClientIds :
    /\ clients.calls[c].op = "startSwitch"
    /\ startSwitchStep(store, clients.calls[c]).st.nextId <= MaxInstances + 2
    /\ store' = startSwitchStep(store, clients.calls[c]).st
    /\ clients' = [clients EXCEPT !.calls[c] =
                     startSwitchStep(store, clients.calls[c]).c]
    /\ UNCHANGED <<pc, poll, last, job, devices, request>>

ClientDeleteSwitchStep ==
  \E c \in ClientIds :
    /\ clients.calls[c].op = "deleteSwitch"
    /\ store' = deleteSwitchStep(store, clients.calls[c]).st
    /\ clients' = [clients EXCEPT !.calls[c] =
                     deleteSwitchStep(store, clients.calls[c]).c]
    /\ UNCHANGED <<pc, poll, last, job, devices, request>>

NextClients ==
  \/ MuxConnect \/ MuxDisconnect
  \/ ClientCalls \/ ClientStartSwitchStep \/ ClientDeleteSwitchStep

SpecClients == InitClients /\ [][NextClients]_vars

\* ---- properties ----
InstancesOf(st, uuid) ==
  {i \in 1..Len(st.servers) : st.servers[i].configuration = uuid}

\* the start of a startSwitch call (not an iteration of its loop)
StartCalled == pc = "idle" /\ last'.op = "startSwitch"

\* a startSwitch that returned False out of its loop, not by a refusal
TimedOut == last.op = "startSwitch" /\ last.ret = "False" /\ last.checks > 0

BindingsOf(st, uuid) == OfSwitch(st.domainPorts, uuid)

\* C1: deleteSwitch on a defined switch returns True and leaves the switch
\* undefined: isSwitch is False and getSwitches does not list it.
C1_DeleteSwitchUndefines ==
  [][(last'.op = "deleteSwitch" /\ isSwitch(store, last'.sw))
       => /\ last'.ret = "True"
          /\ ~isSwitch(store', last'.sw)
          /\ ~HasId(getSwitches(store'), last'.sw)]_vars

\* C2: after deleteSwitch on a defined switch that had domains with port
\* bindings, the store holds no domain of the switch, no binding, and none of
\* the GRE ports that were bound.
C2_DeleteSwitchCascades ==
  [][(/\ last'.op = "deleteSwitch"
      /\ isSwitch(store, last'.sw)
      /\ \E i \in 1..Len(store.domainPorts) :
            /\ store.domainPorts[i].sw = last'.sw
            /\ HasId(OfSwitch(store.domains, last'.sw), store.domainPorts[i].domain))
       => /\ OfSwitch(store'.domains, last'.sw) = <<>>
          /\ BindingsOf(store', last'.sw) = <<>>
          /\ \A i \in 1..Len(store.domainPorts) :
               (store.domainPorts[i].sw = last'.sw /\ store.domainPorts[i].tid = GreTid)
                 => ~HasId(store'.portsGre, store.domainPorts[i].port)]_vars

\* C3: deleteSwitch on an id that is not defined returns False and leaves the
\* store as it was.
C3_DeleteUndefinedIsNoOp ==
  [][(last'.op = "deleteSwitch" /\ ~isSwitch(store, last'.sw))
       => (last'.ret = "False" /\ store' = store)]_vars

C3_Witness ==
  /\ last.op = "deleteSwitch" /\ last.ret = "False"
  /\ ~isSwitch(store, last.sw)
  /\ store.switches # <<>>

\* C4: startSwitch on a switch that is not defined or is already running
\* returns False at once and leaves the store as it was: no run instance is
\* created and no networking.vswitch is set.
C4_StartRefusedIsNoOp ==
  [][(StartCalled /\ (~isSwitch(store, last'.sw) \/ isRunning(store, last'.sw)))
       => (last'.ret = "False" /\ store' = store /\ pc' = "idle")]_vars

C4_Witness ==
  /\ last.op = "startSwitch" /\ last.ret = "False" /\ last.checks = 0
  /\ isRunning(store, last.sw)
  /\ Cardinality(InstancesOf(store, last.sw)) = 1

\* C5: at most one run instance references any switch id, so a switch is
\* running exactly when one instance references it.
C5_AtMostOneInstance ==
  \A uuid \in SwitchArgs \cup {store.servers[i].configuration : i \in 1..Len(store.servers)} :
    /\ Cardinality(InstancesOf(store, uuid)) <= 1
    /\ isRunning(store, uuid) <=> Cardinality(InstancesOf(store, uuid)) = 1

\* a switch that was started, stopped and started again
C5_Witness ==
  /\ last.op = "startSwitch" /\ last.ret = "True"
  /\ \E i \in 1..Len(store.servers), j \in 1..Len(store.switches) :
        /\ store.servers[i].configuration = store.switches[j].id
        /\ store.servers[i].id > store.switches[j].id + 1

\* C6: isRunning(s) equals (getRunId(s) is not None), for every id.
C6_IsRunningIffRunId ==
  \A uuid \in SwitchArgs \cup {store.servers[i].configuration : i \in 1..Len(store.servers)} :
    isRunning(store, uuid) = (getRunId(store, uuid) # None)

\* deleteSwitch asked isRunning about a running switch, and stopped it
C6_Witness ==
  /\ last.op = "deleteSwitch" /\ last.ret = "TypeError"
  /\ isSwitch(store, last.sw) /\ ~isRunning(store, last.sw)
  /\ store.nextId > last.sw + 1

\* C7: a startSwitch that never sees the connection makes exactly maxWait + 1
\* checks and then returns False; while it polls it has made at most maxWait
\* checks, so the loop ends.
C7_PollChecksMaxWaitPlusOne ==
  /\ TimedOut => last.checks = last.maxWait + 1
  /\ pc = "poll" => (poll.checks = poll.counter /\ poll.counter <= poll.maxWait)

C7_Witness ==
  /\ TimedOut
  /\ last.maxWait > 0
  /\ last.checks = last.maxWait + 1
  /\ ~isConnectedToMux(store, last.sw)

\* C8: right after a startSwitch that timed out, the run instance it created
\* is still in the store: isRunning is True.
C8_TimeoutKeepsInstance ==
  TimedOut => (isRunning(store, last.sw) /\ InstancesOf(store, last.sw) # {})

C8_Witness ==
  /\ TimedOut
  /\ isRunning(store, last.sw)
  /\ last.sw \notin store.netvs

\* C9: stopSwitch returns False and deletes nothing when the switch has no
\* run instance or is not defined; otherwise it deletes the run instance and
\* nothing else, returns True, and the switch is not running afterwards.
C9_StopSwitch ==
  [][last'.op = "stopSwitch"
       => IF getRunId(store, last'.sw) = None
          THEN last'.ret = "False" /\ store' = store
          ELSE /\ last'.ret = "True"
               /\ ~isRunning(store', last'.sw)
               /\ store' = [store EXCEPT
                              !.servers = RemoveId(@, getRunId(store, last'.sw)[1])]]_vars

C9_Witness ==
  /\ last.op = "stopSwitch" /\ last.ret = "True"
  /\ isSwitch(store, last.sw)
  /\ InstancesOf(store, last.sw) = {}
  /\ store.domains # <<>>

\* C10: every domain-port binding names a domain that exists and a port of
\* its kind that exists.
C10_BindingsReferToLiveEnds ==
  \A i \in 1..Len(store.domainPorts) :
    LET b == store.domainPorts[i] IN
    /\ HasId(OfSwitch(store.domains, b.sw), b.domain)
    /\ IF b.tid = GreTid
       THEN HasId(OfSwitch(store.portsGre, b.sw), b.port)
       ELSE HasId(OfSwitch(store.portsVlan, b.sw), b.port)

\* the pairs (domain, GRE port) of a running switch whose domain, port and
\* binding are all in the store
GreBound(st, uuid, domainId, portId) ==
  /\ isRunning(st, uuid)
  /\ getDomainId(st, uuid, domainId) # None
  /\ getPortGreId(st, uuid, portId) # None
  /\ \E i \in 1..Len(st.domainPorts) :
        st.domainPorts[i] = Binding(uuid, domainId, portId, GreTid)

\* the domains a port of kind tid is bound to
DomainsOfPort(st, uuid, portId, tid) ==
  {st.domainPorts[i].domain :
     i \in {j \in 1..Len(st.domainPorts) :
              /\ st.domainPorts[j].sw = uuid
              /\ st.domainPorts[j].port = portId
              /\ st.domainPorts[j].tid = tid}}

\* C11: deletePortGre on a GRE port bound to a domain returns False and keeps
\* the port; once deletePortGreDomain has taken that binding away (the port's
\* only one), deletePortGre returns True and the port is gone.
C11_DeletePortGreAfterUnbind ==
  \A uuid \in Switches, d \in IdsOf(store.domains), p \in IdsOf(store.portsGre) :
    GreBound(store, uuid, d, p) =>
      /\ deletePortGre(store, uuid, p) = Ret(store, "False")
      /\ LET u == deletePortGreDomain(store, uuid, d, p)
             v == deletePortGre(u.st, uuid, p)
         IN DomainsOfPort(store, uuid, p, GreTid) = {d} =>
              /\ v.ret = "True"
              /\ ~HasId(v.st.portsGre, p)

\* C12: addPortGreDomain(s, d, p) returning True leaves isPortGreDomain true
\* for the pair, and after deletePortGreDomain(s, d, p) isPortGreDomain is
\* false for the pair.
C12_GreBindingRoundTrip ==
  \A uuid \in Switches, d \in IdsOf(store.domains), p \in IdsOf(store.portsGre) :
    (/\ isRunning(store, uuid)
     /\ getDomainId(store, uuid, d) # None
     /\ getPortGreId(store, uuid, p) # None) =>
      /\ LET a == addPortGreDomain(store, uuid, d, p) IN
           a.ret = "True" => isPortGreDomain(a.st, uuid, p, d)
      /\ LET r == deletePortGreDomain(store, uuid, d, p) IN
           ~isPortGreDomain(r.st, uuid, p, d)

\* C13: a binding request for a (domain, port) pair that is already bound
\* returns False and changes nothing, and the store never holds the same
\* binding twice.
C13_NoDuplicateBinding ==
  /\ \A i, j \in 1..Len(store.domainPorts) :
        i # j => store.domainPorts[i] # store.domainPorts[j]
  /\ \A i \in 1..Len(store.domainPorts) :
        LET b == store.domainPorts[i] IN
        isRunning(store, b.sw) =>
          IF b.tid = GreTid
          THEN addPortGreDomain(store, b.sw, b.domain, b.port) = Ret(store, "False")
          ELSE addPortVlanDomain(store, b.sw, b.domain, b.port) = Ret(store, "False")

\* C14: a port, GRE or VLAN, is bound to at most one domain.
C14_PortInOneDomain ==
  \A i, j \in 1..Len(store.domainPorts) :
    (/\ store.domainPorts[i].sw = store.domainPorts[j].sw
     /\ store.domainPorts[i].port = store.domainPorts[j].port
     /\ store.domainPorts[i].tid = store.domainPorts[j].tid)
      => store.domainPorts[i].domain = store.domainPorts[j].domain

\* C15: when deleteDomain(s, d) returns True, no binding names d any more and
\* every port that was bound to d is deleted.
C15_DeleteDomainLeavesNothing ==
  \A uuid \in Switches, d \in IdsOf(store.domains) :
    LET r == deleteDomain(store, uuid, d) IN
    r.ret = "True" =>
      /\ ~HasId(r.st.domains, d)
      /\ \A i \in 1..Len(r.st.domainPorts) :
            ~(r.st.domainPorts[i].sw = uuid /\ r.st.domainPorts[i].domain = d)
      /\ \A i \in 1..Len(store.domainPorts) :
            LET b == store.domainPorts[i] IN
            (b.sw = uuid /\ b.domain = d) =>
              IF b.tid = GreTid
              THEN ~HasId(r.st.portsGre, b.port)
              ELSE ~HasId(r.st.portsVlan, b.port)

\* every id a caller can pass, issued or not
AnyId == 0..(MaxIds + 1)

NetworksNamed(st, uuid, networkName) ==
  SelectSeq(getNetworks(st, uuid).children, LAMBDA n : n.name = networkName)

NetworkNameArgs == NetworkNames \cup {"pcpe"}

C18_AddNetworkRollsBack ==
  \A uuid \in Switches, n \in NetworkNameArgs, hif \in HostInterfaces, cidr \in Cidrs :
    (isRunning(store, uuid) /\ Fails(store, "set", SubnetTid)) =>
      LET r == addNetwork(store, uuid, n, hif, cidr) IN
      /\ r.ret = "None"
      /\ getNetworks(r.st, uuid) = getNetworks(store, uuid)

\* a deleteNetwork that ran its loop and returned False
Aborted ==
  /\ pc = "idle"
  /\ last.op = "deleteNetwork" /\ last.ret = "False"
  /\ job # NoJob

Has(seq, uuid, id) == HasId(OfSwitch(seq, uuid), id)

\* C21: when the switch is not running, or the network, subnet, port or
\* domain a call names is not in the store, every network, subnet, port,
\* domain and binding operation returns None (creators, getters) or False
\* (deleters, binders, predicates) and leaves the store as it was.
C21_RefusedCallsChangeNothing ==
  \A uuid \in SwitchArgs, a \in AnyId, b \in AnyId :
    LET down == ~isRunning(store, uuid)
        noNet == down \/ ~Has(store.networks, uuid, a)
        noSub == down \/ ~Has(store.subnets, uuid, a)
        noDom == down \/ ~Has(store.domains, uuid, a)
        noGre == down \/ ~Has(store.portsGre, uuid, b)
        noVlan == down \/ ~Has(store.portsVlan, uuid, b)
    IN
    /\ down =>
         /\ getNetworks(store, uuid).none /\ getSubnets(store, uuid).none
         /\ getDomains(store, uuid).none
         /\ \A n \in NetworkNameArgs, hif \in HostInterfaces,
               cidr \in Cidrs \cup {"None"} :
              addNetwork(store, uuid, n, hif, cidr) = Ret(store, "None")
         /\ \A n \in DomainNames : addDomain(store, uuid, n) = Ret(store, "None")
    /\ noNet =>
         /\ getNetworkId(store, uuid, a) = None
         /\ deleteNetwork(store, uuid, a) = Ret(store, "False")
         /\ \A cidr \in Cidrs : addSubnet(store, uuid, a, cidr) = Ret(store, "None")
         /\ \A n \in PortNames, vlan \in Vlans :
              addPortVlan(store, uuid, a, n, vlan) = Ret(store, "None")
    /\ noSub =>
         /\ getSubnetId(store, uuid, a) = None
         /\ deleteSubnet(store, uuid, a) = Ret(store, "False")
         /\ \A n \in PortNames : addPortGre(store, uuid, a, n) = Ret(store, "None")
    /\ noDom =>
         /\ getDomainId(store, uuid, a) = None
         /\ deleteDomain(store, uuid, a) = Ret(store, "False")
         /\ deleteDomainPorts(store, uuid, a) = Ret(store, "False")
    /\ noGre =>
         /\ getPortGreId(store, uuid, b) = None
         /\ deletePortGre(store, uuid, b) = Ret(store, "False")
         /\ ~isPortGreAnyDomain(store, uuid, b)
    /\ noVlan =>
         /\ getPortVlanId(store, uuid, b) = None
         /\ deletePortVlan(store, uuid, b) = Ret(store, "False")
    /\ (noDom \/ noGre) =>
         /\ addPortGreDomain(store, uuid, a, b) = Ret(store, "False")
         /\ deletePortGreDomain(store, uuid, a, b) = Ret(store, "False")
         /\ ~isPortGreDomain(store, uuid, b, a)
    /\ (noDom \/ noVlan) =>
         /\ addPortVlanDomain(store, uuid, a, b) = Ret(store, "False")
         /\ deletePortVlanDomain(store, uuid, a, b) = Ret(store, "False")
         /\ ~isPortVlanDomain(store, uuid, a, b)

\* the names a lookup by name is called with; "wrong" names nothing
NameArgs == NetworkNameArgs \cup DomainNames \cup PortNames \cup {"wrong"}

HasName(seq, uuid, name) ==
  \E i \in 1..Len(seq) : seq[i].sw = uuid /\ seq[i].name = name

\* C23: a read, lookup or predicate called between two calls never raises
\* because what it looks for is absent: it returns None or False.
C23_LookupsNeverRaise ==
  \A uuid \in SwitchArgs, a \in AnyId, b \in AnyId, n \in NameArgs :
    pc = "idle" =>
    /\ getNetworkingId(store, uuid).ret \in {"None", "Obj"}
    /\ InstancesOf(store, uuid) = {} => getRunId(store, uuid) = None
    /\ uuid \notin store.netvs => getNetworkingId(store, uuid).ret = "None"
    /\ ~Has(store.networks, uuid, a) => getNetworkId(store, uuid, a) = None
    /\ ~Has(store.subnets, uuid, a) => getSubnetId(store, uuid, a) = None
    /\ ~Has(store.domains, uuid, a) => getDomainId(store, uuid, a) = None
    /\ ~Has(store.portsGre, uuid, a) => getPortGreId(store, uuid, a) = None
    /\ ~Has(store.portsVlan, uuid, a) => getPortVlanId(store, uuid, a) = None
    /\ ~HasName(store.networks, uuid, n) => getNetworkName(store, uuid, n) = None
    /\ ~HasName(store.domains, uuid, n) => getDomainName(store, uuid, n) = None
    /\ ~HasName(store.portsGre, uuid, n) => getPortGreName(store, uuid, n) = None
    /\ ~HasName(store.portsVlan, uuid, n) => getPortVlanName(store, uuid, n) = None
    /\ DomainsOfPort(store, uuid, b, GreTid) = {}
         => (~isPortGreAnyDomain(store, uuid, b) /\ ~isPortGreDomain(store, uuid, b, a))
    /\ a \notin DomainsOfPort(store, uuid, b, RawTid)
         => ~isPortVlanDomain(store, uuid, a, b)

\* C24: addDomain on a running switch returns the id of a new domain, whether
\* or not a domain of that name exists; a second call with the same name
\* gives a second domain.
C24_AddDomainAlwaysSucceeds ==
  \A uuid \in Switches, n \in DomainNames :
    (pc = "idle" /\ isRunning(store, uuid)) =>
      LET r == addDomain(store, uuid, n)
          q == addDomain(r.st, uuid, n)
      IN /\ r.ret = "Id"
         /\ ~Has(store.domains, uuid, r.rid)
         /\ Has(r.st.domains, uuid, r.rid)
         /\ getDomainId(r.st, uuid, r.rid)[1].name = n
         /\ q.ret = "Id" /\ q.rid # r.rid
         /\ Has(q.st.domains, uuid, r.rid) /\ Has(q.st.domains, uuid, q.rid)

\* C25: deletePortVlan on a VLAN port that exists on a running switch returns
\* True and deletes the port, and nothing else, also while a domain holds the
\* port; it returns False exactly when the switch is not running or the port
\* is absent, and then changes nothing.
C25_DeletePortVlanUnguarded ==
  \A uuid \in SwitchArgs, p \in AnyId :
    LET r == deletePortVlan(store, uuid, p)
        there == isRunning(store, uuid) /\ Has(store.portsVlan, uuid, p)
    IN /\ r.ret \in {"True", "False"}
       /\ there => /\ r.ret = "True"
                   /\ ~Has(r.st.portsVlan, uuid, p)
                   /\ r.st = [store EXCEPT !.portsVlan = RemoveId(@, p)]
       /\ ~there => r = Ret(store, "False")

\* a deletePortVlan has returned True and a domain still holds a VLAN port
\* that is gone
C25_Witness ==
  /\ last.op = "deletePortVlan" /\ last.ret = "True"
  /\ \E i \in 1..Len(store.domainPorts) :
        /\ store.domainPorts[i].tid = RawTid
        /\ store.domainPorts[i].sw = last.sw
        /\ ~Has(store.portsVlan, last.sw, store.domainPorts[i].port)
        /\ Has(store.domains, last.sw, store.domainPorts[i].domain)

\* the rows of the bindings listing that are not the binding of port portId
\* of kind tid to domain domainId
OtherBindings(seq, uuid, domainId, portId, tid) ==
  SelectSeq(seq, LAMBDA b : ~(/\ b.sw = uuid /\ b.domain = domainId
                              /\ b.port = portId /\ b.tid = tid))

\* C26: deletePortGreDomain and deletePortVlanDomain return False, changing
\* nothing, when the domain does not hold the port; when one returns True the
\* domain held the port, that one binding is gone, and the ports, the
\* domains, every other binding and the rest of the store are as before.
C26_UnbindRemovesOnlyTheBinding ==
  \A uuid \in SwitchArgs, d \in AnyId, p \in AnyId :
    LET g == deletePortGreDomain(store, uuid, d, p)
        v == deletePortVlanDomain(store, uuid, d, p)
    IN /\ g.ret \in {"True", "False"} /\ v.ret \in {"True", "False"}
       /\ d \notin DomainsOfPort(store, uuid, p, GreTid) => g = Ret(store, "False")
       /\ d \notin DomainsOfPort(store, uuid, p, RawTid) => v = Ret(store, "False")
       /\ g.ret = "False" => g.st = store
       /\ v.ret = "False" => v.st = store
       /\ g.ret = "True" =>
            /\ d \in DomainsOfPort(store, uuid, p, GreTid)
            /\ g.st.domainPorts = OtherBindings(store.domainPorts, uuid, d, p, GreTid)
            /\ Len(g.st.domainPorts) = Len(store.domainPorts) - 1
            /\ [g.st EXCEPT !.domainPorts = store.domainPorts] = store
       /\ v.ret = "True" =>
            /\ d \in DomainsOfPort(store, uuid, p, RawTid)
            /\ v.st.domainPorts = OtherBindings(store.domainPorts, uuid, d, p, RawTid)
            /\ Len(v.st.domainPorts) = Len(store.domainPorts) - 1
            /\ [v.st EXCEPT !.domainPorts = store.domainPorts] = store
            /\ Has(v.st.portsVlan, uuid, p) /\ Has(v.st.domains, uuid, d)

\* a deletePortVlanDomain has returned True, leaving a VLAN port that no
\* domain holds and another binding in place
C26_Witness ==
  /\ last.op = "deletePortVlanDomain" /\ last.ret = "True"
  /\ Len(store.domainPorts) >= 1
  /\ \E i \in 1..Len(store.portsVlan) :
        /\ store.portsVlan[i].sw = last.sw
        /\ DomainsOfPort(store, last.sw, store.portsVlan[i].id, RawTid) = {}

\* C28: a deleteSwitch on a defined switch goes through its three steps in
\* order: the run instance is deleted, then every domain of the switch, then
\* the definition; so the call leaves no instance, no domain and no
\* definition, and the definition is never gone while an instance or a domain
\* of the switch is still there.
C28_DeleteSwitchStepsInOrder ==
  \A uuid \in Switches :
    pc = "idle" =>
      LET r == deleteSwitch(store, uuid) IN
      /\ InstancesOf(r.st, uuid) = {}
      /\ OfSwitch(r.st.domains, uuid) = <<>>
      /\ ~isSwitch(r.st, uuid)
      /\ ~isSwitch(r.st, uuid) =>
            (InstancesOf(r.st, uuid) = {} /\ OfSwitch(r.st.domains, uuid) = <<>>)

\* an iteration of the loop of startSwitch
PollStep == pc = "poll" /\ last'.op = "startSwitch"

\* C29: while startSwitch polls, every check made so far found no connection
\* and there are at most maxWait of them; the check that finds the connection,
\* the k-th with k <= maxWait + 1, ends the call at once with True after
\* exactly k checks; a check that finds none does not return True, and the
\* loop goes on as long as fewer than maxWait + 1 checks were made.
C29_FirstConnectionEndsPolling ==
  [][PollStep =>
       /\ poll.checks = poll.counter /\ poll.checks <= poll.maxWait
       /\ last'.checks = poll.checks + 1
       /\ isConnectedToMux(store, poll.uuid) =>
             /\ pc' = "idle"
             /\ last'.ret = "True"
             /\ last'.checks <= poll.maxWait + 1
       /\ ~isConnectedToMux(store, poll.uuid) =>
             /\ last'.ret # "True"
             /\ (poll.checks + 1 < poll.maxWait + 1) => pc' = "poll"]_vars

\* a startSwitch has returned True at its last possible check, which was not
\* its first
C29_Witness ==
  /\ pc = "idle" /\ last.op = "startSwitch" /\ last.ret = "True"
  /\ last.checks > 1 /\ last.checks = last.maxWait + 1

\* C30: startSwitch issues its networking.vswitch set once, in the step that
\* returns True and right after the check that found the connection; the
\* steps that keep polling, the step that times out and a refused call issue
\* none and leave the networking.vswitch objects as they are.
C30_NetworkingSetOncePerStart ==
  [][/\ PollStep =>
          LET r == startSwitchPoll(store, poll) IN
          /\ r.sets = (IF last'.ret = "True" THEN 1 ELSE 0)
          /\ r.sets = 1 => /\ isConnectedToMux(store, poll.uuid)
                           /\ pc' = "idle"
                           /\ store'.netvs = store.netvs \cup {poll.uuid}
          /\ r.sets = 0 => store'.netvs = store.netvs
     /\ StartCalled => store'.netvs = store.netvs]_vars

\* a second start of a switch has returned True: the networking.vswitch set
\* was issued again
C30_Witness ==
  /\ pc = "idle" /\ last.op = "startSwitch" /\ last.ret = "True"
  /\ last.sw \in store.netvs
  /\ \E i \in 1..Len(store.servers) :
        store.servers[i].configuration = last.sw /\ store.servers[i].id > last.sw + 1

\* the devices of a listing whose field key holds value, by position
Matching(devs, key, value) == {i \in 1..Len(devs) : devs[i][key] = value}

FirstMatching(devs, key, value) ==
  CHOOSE i \in Matching(devs, key, value) :
    \A j \in Matching(devs, key, value) : i <= j

\* C27: getAdminDeviceIdByName and getAdminDeviceIdByUid, when the listing is
\* answered, return None if no device has the name (the uid) and otherwise
\* the id of the first device of the listing that has it.
C27_FirstMatchingDevice ==
  /\ \A name \in DeviceNameArgs :
       getAdminDeviceIdByName(devices, TRUE, name) =
         [ret |-> "Val",
          val |-> IF Matching(devices, "name", name) = {} THEN None
                  ELSE <<devices[FirstMatching(devices, "name", name)].id>>]
  /\ \A uid \in DeviceUidArgs :
       getAdminDeviceIdByUid(devices, TRUE, uid) =
         [ret |-> "Val",
          val |-> IF Matching(devices, "uid", uid) = {} THEN None
                  ELSE <<devices[FirstMatching(devices, "uid", uid)].id>>]

\* what the store holds of one tid
Rows(st, tid) ==
  CASE tid = VswitchTid -> IdsOf(st.switches)
    [] tid = ServerTid -> IdsOf(st.servers)
    [] tid = NetvTid -> st.netvs
    [] tid = NetworkTid -> IdsOf(st.networks)
    [] tid = SubnetTid -> IdsOf(st.subnets)
    [] tid = DomainTid -> IdsOf(st.domains)
    [] tid = DomainPortsTid -> {st.domainPorts[i] : i \in 1..Len(st.domainPorts)}
    [] tid = GreTid -> IdsOf(st.portsGre)
    [] tid = RawTid -> IdsOf(st.portsVlan)

AllTids ==
  {VswitchTid, ServerTid, NetvTid, NetworkTid, SubnetTid, DomainTid,
   DomainPortsTid, GreTid, RawTid}

\* between the stores st0 and st1 a call of kind f took effect
Made(f, st0, st1) ==
  IF f[1] = "set" THEN Rows(st1, f[2]) \ Rows(st0, f[2]) # {}
  ELSE Rows(st0, f[2]) \ Rows(st1, f[2]) # {}

\* everything that changed from st0 to st1 changed from st0 to st2 as well
PartOf(st0, st1, st2) ==
  \A tid \in AllTids :
    /\ Rows(st1, tid) \ Rows(st0, tid) \subseteq Rows(st2, tid) \ Rows(st0, tid)
    /\ Rows(st0, tid) \ Rows(st1, tid) \subseteq Rows(st0, tid) \ Rows(st2, tid)

\* r is the result of a method call during which the store fails calls of
\* kind f, r0 the result of the same call on a store that does not fail:
\* if the method makes a call of kind f, the caller gets CvbnApiFailure; any
\* other result is the one of the store that does not fail; and a call that
\* raised made no call of kind f and nothing the other would not have made
FailureReachesCaller(f, r, r0) ==
  /\ Made(f, store, r0.st) => r.ret = "CvbnApiFailure"
  /\ r.ret # "CvbnApiFailure" => AfterFault(r) = r0
  /\ (r.ret = "CvbnApiFailure" /\ r0.ret # "CvbnApiFailure") =>
        /\ ~Made(f, store, r.st)
        /\ PartOf(store, r.st, r0.st)
        /\ r.st # DuringFault(r0.st, f)

RowRefused(st, uuid, domainId, inst) ==
  IF inst.domain = domainId /\ inst.tid = GreTid
  THEN \/ deletePortGreDomain(st, uuid, domainId, inst.port).ret = "False"
       \/ deletePortGre(deletePortGreDomain(st, uuid, domainId, inst.port).st,
                        uuid, inst.port).ret = "False"
  ELSE IF inst.domain = domainId /\ inst.tid = RawTid
  THEN \/ deletePortVlanDomain(st, uuid, domainId, inst.port).ret = "False"
       \/ deletePortVlan(deletePortVlanDomain(st, uuid, domainId, inst.port).st,
                         uuid, inst.port).ret = "False"
  ELSE FALSE

RECURSIVE SomeRefused(_, _, _, _)
\* whether some delete call answers False while the loop runs over children
SomeRefused(st, uuid, domainId, children) ==
  IF children = <<>> THEN FALSE
  ELSE \/ RowRefused(st, uuid, domainId, Head(children))
       \/ SomeRefused(deleteDomainPortsRow(st, uuid, domainId, Head(children)).st,
                      uuid, domainId, Tail(children))

\* C31: when, during the cleanup of deleteDomain(s, d), a call that removes a
\* binding or deletes a bound port returns False, deleteDomain returns False
\* and domain d is still there.
C31_CleanupFailureAbortsDelete ==
  \A uuid \in Switches, d \in IdsOf(store.domains) :
    (/\ pc = "idle"
     /\ isRunning(store, uuid)
     /\ getDomainId(store, uuid, d) # None
     /\ SomeRefused(store, uuid, d, OfSwitch(store.domainPorts, uuid)))
    => LET r == deleteDomain(store, uuid, d) IN
       /\ r.ret = "False"
       /\ HasId(r.st.domains, d)

\* the store after a call of deleteDomain that the failure f of the store
\* interrupts, followed by the same call on the working store
RedrivenDeleteDomain(st, uuid, domainId, f) ==
  deleteDomain(AfterFault(deleteDomain(DuringFault(st, f), uuid, domainId)).st,
               uuid, domainId).st

\* the same for deleteNetwork
RedrivenDeleteNetwork(st, uuid, networkId, f) ==
  deleteNetwork(AfterFault(deleteNetwork(DuringFault(st, f), uuid, networkId)).st,
                uuid, networkId).st

\* C32: a deleteDomain or deleteNetwork call that a store failure interrupts,
\* invoked again on the working store, ends in the store the uninterrupted
\* call ends in.
C32_RedrivenCascadeCompletes ==
  \A uuid \in Switches :
    pc = "idle" =>
      /\ \A d \in IdsOf(store.domains), f \in deleteDomainKinds :
           deleteDomain(DuringFault(store, f), uuid, d).ret = "CvbnApiFailure"
             => RedrivenDeleteDomain(store, uuid, d, f)
                  = deleteDomain(store, uuid, d).st
      /\ \A n \in IdsOf(store.networks), f \in deleteNetworkKinds :
           deleteNetwork(DuringFault(store, f), uuid, n).ret = "CvbnApiFailure"
             => RedrivenDeleteNetwork(store, uuid, n, f)
                  = deleteNetwork(store, uuid, n).st

C34_EndpointKeysOnlyWhenSupplied ==
  request.params # None =>
    /\ ("local_endpoint" \in DOMAIN request.params[1])
         <=> (request.args[1].local_ip # None)
    /\ ("remote_endpoint" \in DOMAIN request.params[1])
         <=> (request.args[1].remote_ip # None)

\* C36: deleteSubnet on an existing subnet of a running switch returns True
\* and deletes the subnet, also when a GRE port names it as its local_subnet;
\* the port stays as it is.
C36_DeleteSubnetIgnoresReferences ==
  \A uuid \in Switches, subnetId \in IdsOf(store.subnets) :
    (/\ pc = "idle"
     /\ isRunning(store, uuid)
     /\ getSubnetId(store, uuid, subnetId) # None)
    => LET r == deleteSubnet(store, uuid, subnetId) IN
       /\ r.ret = "True"
       /\ ~HasId(r.st.subnets, subnetId)
       /\ getSubnetId(r.st, uuid, subnetId) = None
       /\ r.st.portsGre = store.portsGre

\* deleteSubnet has just returned True and a GRE port of the running switch
\* names a subnet that is gone
C36_Witness ==
  /\ last.op = "deleteSubnet"
  /\ last.ret = "True"
  /\ isRunning(store, last.sw)
  /\ \E i \in 1..Len(store.portsGre) :
        /\ store.portsGre[i].sw = last.sw
        /\ ~HasId(store.subnets, store.portsGre[i].local_subnet)

\* C37: in every state that calls of the public methods reach, calls a store
\* failure aborted included, the switch a run instance references is defined.
C37_InstancesReferToDefinedSwitch ==
  \A i \in 1..Len(store.servers) :
    \E j \in 1..Len(store.switches) :
      store.switches[j].id = store.servers[i].configuration

\* a deleteSwitch call on a running switch was aborted by a store failure:
\* its instance is still there
C37_Witness ==
  /\ last.op = "deleteSwitch"
  /\ last.ret = "CvbnApiFailure"
  /\ \E i \in 1..Len(store.servers) : store.servers[i].configuration = last.sw

\* C38: when startSwitch(id) returns True, its last isConnectedToMux call saw
\* a connection named id, and in the state it returns in isRunning(id) is
\* True and getNetworkingId(id) returns the networking.vswitch object.
C38_StartedSwitchIsUsable ==
  [][(PollStep /\ last'.ret = "True") =>
       /\ isConnectedToMux(store, poll.uuid)
       /\ last'.sw = poll.uuid
       /\ isRunning(store', poll.uuid)
       /\ getNetworkingId(store', poll.uuid).ret = "Obj"
       /\ getNetworkingId(store', poll.uuid).obj # None]_vars

\* startSwitch has just returned True after waiting for the connection
C38_Witness ==
  /\ last.op = "startSwitch"
  /\ last.ret = "True"
  /\ last.checks > 1
  /\ pc = "idle"
  /\ getNetworkingId(store, last.sw).ret = "Obj"

\* the call that removes binding b
Unbind(st, b) ==
  IF b.tid = GreTid THEN deletePortGreDomain(st, b.sw, b.domain, b.port)
  ELSE deletePortVlanDomain(st, b.sw, b.domain, b.port)

\* C40: for every binding in the store whose domain exists on a running
\* switch, the deletePortGreDomain or deletePortVlanDomain call for it returns
\* True and removes it.
C40_EveryBindingCanBeRemoved ==
  \A i \in 1..Len(store.domainPorts) :
    LET b == store.domainPorts[i] IN
    (/\ pc = "idle"
     /\ isRunning(store, b.sw)
     /\ getDomainId(store, b.sw, b.domain) # None)
    => /\ Unbind(store, b).ret = "True"
       /\ \A j \in 1..Len(Unbind(store, b).st.domainPorts) :
             Unbind(store, b).st.domainPorts[j] # b

\* C39: also when the startSwitch calls of two callers interleave store call
\* by store call, at most one run instance references a switch.
C39_InterleavedStartsOneInstance ==
  \A uuid \in SwitchArgs : Cardinality(InstancesOf(store, uuid)) <= 1

\* C39 as amended: when the callers serialize their calls, at most one run
\* instance references a switch.
C39_SerializedStartsOneInstance ==
  clients.lock =>
    \A i \in 1..Len(store.servers), j \in 1..Len(store.servers) :
      store.servers[i].configuration = store.servers[j].configuration => i = j

\* two serialized callers have both called startSwitch for the same switch:
\* one got True, the other False, and the switch has its one instance
C39_Witness ==
  /\ clients.lock
  /\ clients.calls[1].pc = "idle" /\ clients.calls[2].pc = "idle"
  /\ clients.calls[1].ret = "True" /\ clients.calls[2].ret = "False"
  /\ clients.calls[1].uuid = clients.calls[2].uuid
  /\ isRunning(store, clients.calls[1].uuid)

\* the switch ids that a run instance in the store references
Configurations(st) == {st.servers[i].configuration : i \in 1..Len(st.servers)}

====
